---------------------------- MODULE Spec2Model ----------------------------
(***************************************************************************)
(* A model of envmerge's core: the .env parser (parseLine, unquoteValue,   *)
(* parseBlocks), the serializer (serializeBlocks, serializeToString,       *)
(* quoteValue) and the merger (mergeSources, mergeTwo and their helpers).  *)
(*                                                                         *)
(* A string is a sequence of one-character strings, so <<"A","=","1">> is  *)
(* the text A=1 and <<>> is the empty string.  A document is a chain of    *)
(* blocks in a heap: heap[i] is the block with reference i, its field next *)
(* is the reference of the following block, and 0 is null.                 *)
(***************************************************************************)
EXTENDS Naturals, Sequences, FiniteSets

VARIABLES
    texts,    \* the input texts of the run, in argument order (Null: a null argument)
    heap,     \* every Block object allocated so far
    docs,     \* docs[i]: head of the document parsed from texts[i] (0: null)
    pc,       \* position of the run
    frame,    \* the running mergeSources/mergeTwo call
    m,        \* head returned by the first mergeSources call
    pre,      \* the heap and head when the running mergeTwo call started
    last,     \* what the latest loop iteration of mergeTwo did
    ser1,     \* serializeToString(m) taken when the first call returned
    ser2,     \* serializeToString of the second call's result
    mode,     \* which second call the run makes
    raw0,     \* value round trip: the text after "=" on a variable line
    val1,     \* value round trip: unquoteValue(raw0)
    quoted,   \* value round trip: quoteValue(val1)
    val2,     \* value round trip: unquoteValue(quoted)
    fs,       \* the files on disk: fs[path] is the content (Null: no such file)
    cli       \* the arguments and locals of the running mergeEnvFiles call

vars == <<texts, heap, docs, pc, frame, m, pre, last, ser1, ser2, mode,
          raw0, val1, quoted, val2, fs, cli>>

Null == <<"null">>

-----------------------------------------------------------------------------
(* Characters and strings *)

NL == "\n"
CR == "\r"
TAB == "\t"
DQ == "\""
SQ == "'"
BS == "\\"

\* What String.prototype.trim and the regex class \s remove, within the alphabet used.
Whitespace == {" ", TAB, NL, CR}

\* [A-Za-z_]
KeyStart == {"A","B","C","D","E","F","G","H","I","J","K","L","M","N","O","P","Q",
             "R","S","T","U","V","W","X","Y","Z","a","b","c","d","e","f","g","h",
             "i","j","k","l","m","n","o","p","q","r","s","t","u","v","w","x","y",
             "z","_"}

\* [A-Za-z0-9_]
KeyChar == KeyStart \cup {"0","1","2","3","4","5","6","7","8","9"}

RECURSIVE TrimStart(_)
TrimStart(s) ==
    IF s # <<>> /\ Head(s) \in Whitespace THEN TrimStart(Tail(s)) ELSE s

RECURSIVE TrimEnd(_)
TrimEnd(s) ==
    IF s # <<>> /\ s[Len(s)] \in Whitespace
    THEN TrimEnd(SubSeq(s, 1, Len(s) - 1)) ELSE s

\* String.prototype.trim
Trim(s) == TrimEnd(TrimStart(s))

StartsWith(s, c) == s # <<>> /\ s[1] = c
EndsWith(s, c) == s # <<>> /\ s[Len(s)] = c
Includes(s, c) == \E i \in 1..Len(s) : s[i] = c

\* s.slice(1, -1)
SliceInner(s) == IF Len(s) <= 2 THEN <<>> ELSE SubSeq(s, 2, Len(s) - 1)

\* s.replace(/pat/g, rep): leftmost matches, left to right, not overlapping.
RECURSIVE ReplaceFrom(_, _, _, _)
ReplaceFrom(s, pat, rep, i) ==
    IF i > Len(s) THEN <<>>
    ELSE IF i + Len(pat) - 1 <= Len(s) /\ SubSeq(s, i, i + Len(pat) - 1) = pat
         THEN rep \o ReplaceFrom(s, pat, rep, i + Len(pat))
         ELSE <<s[i]>> \o ReplaceFrom(s, pat, rep, i + 1)

ReplaceAll(s, pat, rep) == ReplaceFrom(s, pat, rep, 1)

\* parts.join(sep)
RECURSIVE Join(_, _)
Join(parts, sep) ==
    IF parts = <<>> THEN <<>>
    ELSE IF Len(parts) = 1 THEN parts[1]
    ELSE parts[1] \o sep \o Join(Tail(parts), sep)

\* content.split(/\r?\n/): cut at every "\n", a "\r" right before it goes with it.
RECURSIVE SplitFrom(_, _, _)
SplitFrom(s, i, cur) ==
    IF i > Len(s) THEN <<cur>>
    ELSE IF s[i] = NL
         THEN <<(IF EndsWith(cur, CR) THEN SubSeq(cur, 1, Len(cur) - 1) ELSE cur)>>
              \o SplitFrom(s, i + 1, <<>>)
         ELSE SplitFrom(s, i + 1, Append(cur, s[i]))

SplitLines(content) == SplitFrom(content, 1, <<>>)

-----------------------------------------------------------------------------
(* parser.ts: values *)

unquoteValue(value) ==
    LET trimmed == Trim(value) IN
    IF StartsWith(trimmed, SQ) /\ EndsWith(trimmed, SQ) THEN SliceInner(trimmed)
    ELSE IF StartsWith(trimmed, DQ) /\ EndsWith(trimmed, DQ)
         THEN ReplaceAll(ReplaceAll(ReplaceAll(ReplaceAll(ReplaceAll(
                  SliceInner(trimmed),
                  <<BS, "n">>, <<NL>>), <<BS, "r">>, <<CR>>), <<BS, "t">>, <<TAB>>),
                  <<BS, BS>>, <<BS>>), <<BS, DQ>>, <<DQ>>)
         ELSE trimmed

NeedsQuotes(value) ==
    \/ Includes(value, " ") \/ Includes(value, NL) \/ Includes(value, CR)
    \/ Includes(value, TAB) \/ Includes(value, "#") \/ Includes(value, DQ)
    \/ Includes(value, SQ) \/ Includes(value, BS)

\* quoteValue that escapes the backslash last, after it has put backslashes
\* in front of quotes and in place of newlines, carriage returns and tabs.
quoteValueBackslashLast(value) ==
    IF NeedsQuotes(value)
    THEN <<DQ>>
         \o ReplaceAll(ReplaceAll(ReplaceAll(ReplaceAll(ReplaceAll(value,
                <<DQ>>, <<BS, DQ>>), <<NL>>, <<BS, "n">>), <<CR>>, <<BS, "r">>),
                <<TAB>>, <<BS, "t">>), <<BS>>, <<BS, BS>>)
         \o <<DQ>>
    ELSE value



quoteValue(value) ==
    IF NeedsQuotes(value)
    THEN <<DQ>>
         \o ReplaceAll(ReplaceAll(ReplaceAll(ReplaceAll(ReplaceAll(value,
                <<BS>>, <<BS, BS>>), <<DQ>>, <<BS, DQ>>), <<NL>>, <<BS, "n">>),
                <<CR>>, <<BS, "r">>), <<TAB>>, <<BS, "t">>)
         \o <<DQ>>
    ELSE value

-----------------------------------------------------------------------------
(* parser.ts: lines *)

CommentLine(content) ==
    [type |-> "comment", content |-> content, key |-> <<>>, value |-> <<>>, raw |-> <<>>]
EmptyLine ==
    [type |-> "empty", content |-> <<>>, key |-> <<>>, value |-> <<>>, raw |-> <<>>]
VariableLine(key, value, raw) ==
    [type |-> "variable", content |-> <<>>, key |-> key, value |-> value, raw |-> raw]

\* The longest prefix of s made of [A-Za-z0-9_].
RECURSIVE KeyPrefixLen(_, _)
KeyPrefixLen(s, n) ==
    IF n < Len(s) /\ s[n + 1] \in KeyChar THEN KeyPrefixLen(s, n + 1) ELSE n

\* line.match(/^([A-Za-z_][A-Za-z0-9_]*)\s*=\s*(.*)$/): a record with ok, key
\* and value (the second group).  "." matches no line terminator, so a "\r" or
\* "\n" left after the whitespace following "=" makes the match fail.
MatchVariable(line) ==
    LET n == KeyPrefixLen(line, 0)
        afterKey == TrimStart(SubSeq(line, n + 1, Len(line)))
        rest == IF afterKey = <<>> THEN <<>> ELSE TrimStart(Tail(afterKey))
    IN  IF /\ n >= 1
           /\ line[1] \in KeyStart
           /\ StartsWith(afterKey, "=")
           /\ ~Includes(rest, CR)
           /\ ~Includes(rest, NL)
        THEN [ok |-> TRUE, key |-> SubSeq(line, 1, n), value |-> rest]
        ELSE [ok |-> FALSE, key |-> <<>>, value |-> <<>>]

\* parseLine that drops a line that is neither blank, nor a comment, nor a
\* variable: it reads it as a blank line.
parseLineDropInvalid(line) ==
    LET trimmed == Trim(line)
        match == MatchVariable(line)
    IN  IF trimmed = <<>> THEN EmptyLine
        ELSE IF StartsWith(trimmed, "#") THEN CommentLine(line)
        ELSE IF match.ok THEN VariableLine(match.key, unquoteValue(match.value), line)
        ELSE EmptyLine

parseLine(line) ==
    LET trimmed == Trim(line)
        match == MatchVariable(line)
    IN  IF trimmed = <<>> THEN EmptyLine
        ELSE IF StartsWith(trimmed, "#") THEN CommentLine(line)
        ELSE IF match.ok THEN VariableLine(match.key, unquoteValue(match.value), line)
        ELSE CommentLine(line)

-----------------------------------------------------------------------------
(* types.ts: blocks.  One record shape for the three kinds; the fields a   *)
(* kind does not have are empty.                                           *)

VariableBlock(key, value, raw, comments) ==
    [type |-> "variable", key |-> key, value |-> value, raw |-> raw,
     comments |-> comments, lines |-> <<>>, next |-> 0]
CommentBlock(lines) ==
    [type |-> "comment", key |-> <<>>, value |-> <<>>, raw |-> <<>>,
     comments |-> <<>>, lines |-> lines, next |-> 0]
EmptyBlock ==
    [type |-> "empty", key |-> <<>>, value |-> <<>>, raw |-> <<>>,
     comments |-> <<>>, lines |-> <<>>, next |-> 0]

-----------------------------------------------------------------------------
(* parser.ts: grouping lines into blocks *)

\* isNextNonEmptyComment(currentIndex)
RECURSIVE isNextNonEmptyComment(_, _)
isNextNonEmptyComment(lines, currentIndex) ==
    IF currentIndex + 1 > Len(lines) THEN FALSE
    ELSE IF lines[currentIndex + 1].type = "comment" THEN TRUE
    ELSE IF lines[currentIndex + 1].type = "variable" THEN FALSE
    ELSE isNextNonEmptyComment(lines, currentIndex + 1)

\* The loop's state: the blocks linked so far (head..current), pendingComments,
\* consecutiveEmptyLines and hasEmptyLineAfterComment.
ParseStart ==
    [blocks |-> <<>>, pendingComments |-> <<>>, consecutiveEmptyLines |-> 0,
     hasEmptyLineAfterComment |-> FALSE]

\* parseBlocksStep that adds an empty block for every blank line that has no
\* pending comments, without looking at consecutiveEmptyLines.
parseBlocksStepEveryBlank(lines, i, st) ==
    LET line == lines[i] IN
    IF line.type = "variable" THEN
        [blocks |-> Append(st.blocks,
                       VariableBlock(line.key, line.value, line.raw, st.pendingComments)),
         pendingComments |-> <<>>,
         consecutiveEmptyLines |-> 0,
         hasEmptyLineAfterComment |-> FALSE]
    ELSE IF line.type = "comment" THEN
        IF st.pendingComments # <<>> /\ st.hasEmptyLineAfterComment
        THEN [blocks |-> Append(st.blocks, CommentBlock(st.pendingComments)),
              pendingComments |-> <<line.content>>,
              consecutiveEmptyLines |-> 0,
              hasEmptyLineAfterComment |-> FALSE]
        ELSE [st EXCEPT !.pendingComments = Append(@, line.content),
                        !.consecutiveEmptyLines = 0]
    ELSE IF st.pendingComments # <<>> THEN
        IF isNextNonEmptyComment(lines, i)
        THEN IF st.consecutiveEmptyLines = 0
             THEN [st EXCEPT !.pendingComments = Append(@, <<>>),
                             !.hasEmptyLineAfterComment = TRUE,
                             !.consecutiveEmptyLines = 1]
             ELSE [st EXCEPT !.consecutiveEmptyLines = @ + 1]
        ELSE IF st.consecutiveEmptyLines = 0
             THEN [blocks |-> st.blocks \o <<CommentBlock(st.pendingComments), EmptyBlock>>,
                   pendingComments |-> <<>>,
                   consecutiveEmptyLines |-> 1,
                   hasEmptyLineAfterComment |-> FALSE]
             ELSE [st EXCEPT !.consecutiveEmptyLines = @ + 1]
    ELSE [st EXCEPT !.blocks = Append(@, EmptyBlock), !.consecutiveEmptyLines = @ + 1]

\* parseBlocksStep that closes the pending comments as a comment block of their
\* own when a variable line comes, and gives the variable no comments.
parseBlocksStepDetached(lines, i, st) ==
    LET line == lines[i] IN
    IF line.type = "variable" THEN
        [blocks |-> (IF st.pendingComments # <<>>
                     THEN Append(st.blocks, CommentBlock(st.pendingComments))
                     ELSE st.blocks)
                    \o <<VariableBlock(line.key, line.value, line.raw, <<>>)>>,
         pendingComments |-> <<>>,
         consecutiveEmptyLines |-> 0,
         hasEmptyLineAfterComment |-> FALSE]
    ELSE IF line.type = "comment" THEN
        IF st.pendingComments # <<>> /\ st.hasEmptyLineAfterComment
        THEN [blocks |-> Append(st.blocks, CommentBlock(st.pendingComments)),
              pendingComments |-> <<line.content>>,
              consecutiveEmptyLines |-> 0,
              hasEmptyLineAfterComment |-> FALSE]
        ELSE [st EXCEPT !.pendingComments = Append(@, line.content),
                        !.consecutiveEmptyLines = 0]
    ELSE IF st.pendingComments # <<>> THEN
        IF isNextNonEmptyComment(lines, i)
        THEN IF st.consecutiveEmptyLines = 0
             THEN [st EXCEPT !.pendingComments = Append(@, <<>>),
                             !.hasEmptyLineAfterComment = TRUE,
                             !.consecutiveEmptyLines = 1]
             ELSE [st EXCEPT !.consecutiveEmptyLines = @ + 1]
        ELSE IF st.consecutiveEmptyLines = 0
             THEN [blocks |-> st.blocks \o <<CommentBlock(st.pendingComments), EmptyBlock>>,
                   pendingComments |-> <<>>,
                   consecutiveEmptyLines |-> 1,
                   hasEmptyLineAfterComment |-> FALSE]
             ELSE [st EXCEPT !.consecutiveEmptyLines = @ + 1]
    ELSE IF st.consecutiveEmptyLines = 0
         THEN [st EXCEPT !.blocks = Append(@, EmptyBlock), !.consecutiveEmptyLines = 1]
         ELSE [st EXCEPT !.consecutiveEmptyLines = @ + 1]

\* parseBlocksStep that keeps collecting comment lines after a compressed
\* blank run instead of closing the comment block before it.
parseBlocksStepNoFlush(lines, i, st) ==
    LET line == lines[i] IN
    IF line.type = "variable" THEN
        [blocks |-> Append(st.blocks,
                       VariableBlock(line.key, line.value, line.raw, st.pendingComments)),
         pendingComments |-> <<>>,
         consecutiveEmptyLines |-> 0,
         hasEmptyLineAfterComment |-> FALSE]
    ELSE IF line.type = "comment" THEN
        [st EXCEPT !.pendingComments = Append(@, line.content),
                   !.consecutiveEmptyLines = 0]
    ELSE IF st.pendingComments # <<>> THEN
        IF isNextNonEmptyComment(lines, i)
        THEN IF st.consecutiveEmptyLines = 0
             THEN [st EXCEPT !.pendingComments = Append(@, <<>>),
                             !.hasEmptyLineAfterComment = TRUE,
                             !.consecutiveEmptyLines = 1]
             ELSE [st EXCEPT !.consecutiveEmptyLines = @ + 1]
        ELSE IF st.consecutiveEmptyLines = 0
             THEN [blocks |-> st.blocks \o <<CommentBlock(st.pendingComments), EmptyBlock>>,
                   pendingComments |-> <<>>,
                   consecutiveEmptyLines |-> 1,
                   hasEmptyLineAfterComment |-> FALSE]
             ELSE [st EXCEPT !.consecutiveEmptyLines = @ + 1]
    ELSE IF st.consecutiveEmptyLines = 0
         THEN [st EXCEPT !.blocks = Append(@, EmptyBlock), !.consecutiveEmptyLines = 1]
         ELSE [st EXCEPT !.consecutiveEmptyLines = @ + 1]


\* One iteration of parseBlocks' for loop, on lines[i].
parseBlocksStep(lines, i, st) ==
    LET line == lines[i] IN
    IF line.type = "variable" THEN
        [blocks |-> Append(st.blocks,
                       VariableBlock(line.key, line.value, line.raw, st.pendingComments)),
         pendingComments |-> <<>>,
         consecutiveEmptyLines |-> 0,
         hasEmptyLineAfterComment |-> FALSE]
    ELSE IF line.type = "comment" THEN
        IF st.pendingComments # <<>> /\ st.hasEmptyLineAfterComment
        THEN [blocks |-> Append(st.blocks, CommentBlock(st.pendingComments)),
              pendingComments |-> <<line.content>>,
              consecutiveEmptyLines |-> 0,
              hasEmptyLineAfterComment |-> FALSE]
        ELSE [st EXCEPT !.pendingComments = Append(@, line.content),
                        !.consecutiveEmptyLines = 0]
    ELSE IF st.pendingComments # <<>> THEN
        IF isNextNonEmptyComment(lines, i)
        THEN IF st.consecutiveEmptyLines = 0
             THEN [st EXCEPT !.pendingComments = Append(@, <<>>),
                             !.hasEmptyLineAfterComment = TRUE,
                             !.consecutiveEmptyLines = 1]
             ELSE [st EXCEPT !.consecutiveEmptyLines = @ + 1]
        ELSE IF st.consecutiveEmptyLines = 0
             THEN [blocks |-> st.blocks \o <<CommentBlock(st.pendingComments), EmptyBlock>>,
                   pendingComments |-> <<>>,
                   consecutiveEmptyLines |-> 1,
                   hasEmptyLineAfterComment |-> FALSE]
             ELSE [st EXCEPT !.consecutiveEmptyLines = @ + 1]
    ELSE IF st.consecutiveEmptyLines = 0
         THEN [st EXCEPT !.blocks = Append(@, EmptyBlock), !.consecutiveEmptyLines = 1]
         ELSE [st EXCEPT !.consecutiveEmptyLines = @ + 1]

RECURSIVE parseBlocksFrom(_, _, _)
parseBlocksFrom(lines, i, st) ==
    IF i > Len(lines) THEN st
    ELSE parseBlocksFrom(lines, i + 1, parseBlocksStep(lines, i, st))

\* parseBlocks, as the sequence of blocks from head along next.
parseBlocks(lines) ==
    LET st == parseBlocksFrom(lines, 1, ParseStart) IN
    IF st.pendingComments # <<>>
    THEN Append(st.blocks, CommentBlock(st.pendingComments))
    ELSE st.blocks

\* parseEnvFile, as the sequence of blocks of the chain it returns.
parseEnvFile(content) ==
    LET contentLines == SplitLines(content) IN
    parseBlocks([i \in 1..Len(contentLines) |-> parseLine(contentLines[i])])

-----------------------------------------------------------------------------
(* parser.ts: serializing *)

\* The lines one block gives in serializeBlocks.
BlockLines(b) ==
    IF b.type = "variable"
    THEN [i \in 1..Len(b.comments) |-> CommentLine(b.comments[i])]
         \o <<VariableLine(b.key, b.value, b.raw)>>
    ELSE IF b.type = "comment"
    THEN [i \in 1..Len(b.lines) |-> CommentLine(b.lines[i])]
    ELSE <<EmptyLine>>

\* serializeBlocks over a chain given as its sequence of blocks.
RECURSIVE serializeBlocks(_)
serializeBlocks(blocks) ==
    IF blocks = <<>> THEN <<>>
    ELSE BlockLines(Head(blocks)) \o serializeBlocks(Tail(blocks))

\* The text serializeToString gives one line.
LineText(line) ==
    IF line.type = "comment" THEN line.content
    ELSE IF line.type = "empty" THEN <<>>
    ELSE line.key \o <<"=">> \o quoteValue(line.value)

serializeToString(blocks) ==
    LET lines == serializeBlocks(blocks) IN
    Join([i \in 1..Len(lines) |-> LineText(lines[i])], <<NL>>)

\* The sequence of blocks of the chain that starts at head h in heap hp.
RECURSIVE Chain(_, _)
Chain(hp, h) == IF h = 0 THEN <<>> ELSE <<hp[h]>> \o Chain(hp, hp[h].next)

\* The references of that chain, in order.
RECURSIVE ChainIds(_, _)
ChainIds(hp, h) == IF h = 0 THEN <<>> ELSE <<h>> \o ChainIds(hp, hp[h].next)

\* The heap after allocating a chain for the blocks, and that chain's head.
Link(hp, blocks) ==
    [heap |-> hp \o [i \in 1..Len(blocks) |->
                        [blocks[i] EXCEPT !.next =
                            IF i = Len(blocks) THEN 0 ELSE Len(hp) + i + 1]],
     head |-> IF blocks = <<>> THEN 0 ELSE Len(hp) + 1]

-----------------------------------------------------------------------------
(* merger.ts: list helpers.  hp is the heap, references are indexes into it *)

isVariableBlock(hp, block) == block # 0 /\ hp[block].type = "variable"
isCommentBlock(hp, block) == block # 0 /\ hp[block].type = "comment"

\* The last block of the chain from head (head is not null).
RECURSIVE TailOf(_, _)
TailOf(hp, head) == IF hp[head].next = 0 THEN head ELSE TailOf(hp, hp[head].next)


\* appendToTail: the heap afterwards.
appendToTail(hp, head, blockToAppend) ==
    LET tail == TailOf(hp, head) IN
    [[hp EXCEPT ![tail].next = blockToAppend] EXCEPT ![blockToAppend].next = 0]

\* The block of the chain from current whose next is targetBlock, 0 if none.
RECURSIVE NodeBefore(_, _, _)
NodeBefore(hp, current, targetBlock) ==
    IF hp[current].next = 0 THEN 0
    ELSE IF hp[current].next = targetBlock THEN current
    ELSE NodeBefore(hp, hp[current].next, targetBlock)

\* insertBefore that links the new block in without giving it a successor.
insertBeforeUnlinked(hp, head, targetBlock, blockToInsert) ==
    IF head = 0 THEN [heap |-> hp, head |-> blockToInsert, notFound |-> FALSE]
    ELSE IF head = targetBlock
    THEN [heap |-> hp, head |-> blockToInsert, notFound |-> FALSE]
    ELSE LET before == NodeBefore(hp, head, targetBlock) IN
         IF before # 0
         THEN [heap |-> [hp EXCEPT ![before].next = blockToInsert],
               head |-> head, notFound |-> FALSE]
         ELSE [heap |-> appendToTail(hp, head, blockToInsert),
               head |-> head, notFound |-> TRUE]


\* insertBefore: the heap afterwards, the head it returns, and whether the
\* "target not found" branch ran.
insertBefore(hp, head, targetBlock, blockToInsert) ==
    IF head = 0 THEN [heap |-> hp, head |-> blockToInsert, notFound |-> FALSE]
    ELSE IF head = targetBlock
    THEN [heap |-> [hp EXCEPT ![blockToInsert].next = head],
          head |-> blockToInsert, notFound |-> FALSE]
    ELSE LET before == NodeBefore(hp, head, targetBlock) IN
         IF before # 0
         THEN [heap |-> [[hp EXCEPT ![blockToInsert].next = targetBlock]
                             EXCEPT ![before].next = blockToInsert],
               head |-> head, notFound |-> FALSE]
         ELSE [heap |-> appendToTail(hp, head, blockToInsert),
               head |-> head, notFound |-> TRUE]

\* findVariableBlock that looks at the head block only.
findVariableBlockHeadOnly(hp, head, key) ==
    IF head # 0 /\ isVariableBlock(hp, head) /\ hp[head].key = key THEN head ELSE 0


RECURSIVE findVariableBlock(_, _, _)
findVariableBlock(hp, head, key) ==
    IF head = 0 THEN 0
    ELSE IF isVariableBlock(hp, head) /\ hp[head].key = key THEN head
    ELSE findVariableBlock(hp, hp[head].next, key)

\* The first variable block of the chain from current, 0 if none.
RECURSIVE FirstVariable(_, _)
FirstVariable(hp, current) ==
    IF current = 0 THEN 0
    ELSE IF isVariableBlock(hp, current) THEN current
    ELSE FirstVariable(hp, hp[current].next)

findNextVariable(hp, block) ==
    IF block = 0 THEN 0 ELSE FirstVariable(hp, hp[block].next)

\* findIntersectionPoint that returns the source's block of the shared key
\* instead of base's.
RECURSIVE findIntersectionPointInSource(_, _, _)
findIntersectionPointInSource(hp, sourceStart, base) ==
    IF sourceStart = 0 THEN 0
    ELSE IF isVariableBlock(hp, sourceStart)
            /\ findVariableBlock(hp, base, hp[sourceStart].key) # 0
         THEN sourceStart
         ELSE findIntersectionPointInSource(hp, hp[sourceStart].next, base)


RECURSIVE findIntersectionPoint(_, _, _)
findIntersectionPoint(hp, sourceStart, base) ==
    IF sourceStart = 0 THEN 0
    ELSE LET baseBlock == IF isVariableBlock(hp, sourceStart)
                          THEN findVariableBlock(hp, base, hp[sourceStart].key)
                          ELSE 0
         IN  IF baseBlock # 0 THEN baseBlock
             ELSE findIntersectionPoint(hp, hp[sourceStart].next, base)

areBlocksEqual(hp, a, b) ==
    IF a = 0 \/ b = 0 THEN FALSE
    ELSE IF hp[a].type # hp[b].type THEN FALSE
    ELSE IF hp[a].type = "comment"
         THEN Trim(Join(hp[a].lines, <<NL>>)) = Trim(Join(hp[b].lines, <<NL>>))
    ELSE IF hp[a].type = "empty" THEN TRUE
    ELSE hp[a].key = hp[b].key /\ hp[a].value = hp[b].value

\* The block visited just before x on the walk from temp (0 when x is where
\* the walk starts); the last block of the chain when x is not on it.
RECURSIVE WalkBefore(_, _, _, _)
WalkBefore(hp, temp, x, beforeEmpty) ==
    IF temp = 0 \/ temp = x THEN beforeEmpty
    ELSE WalkBefore(hp, hp[temp].next, x, temp)

\* The backward walk of hasCommentBlockBefore over empty blocks.
RECURSIVE SkipEmptyBack(_, _, _)
SkipEmptyBack(hp, head, checkBlock) ==
    IF checkBlock # 0 /\ hp[checkBlock].type = "empty"
    THEN SkipEmptyBack(hp, head, WalkBefore(hp, head, checkBlock, 0))
    ELSE checkBlock

RECURSIVE OnChain(_, _, _)
OnChain(hp, head, x) ==
    IF head = 0 THEN FALSE
    ELSE IF head = x THEN TRUE
    ELSE OnChain(hp, hp[head].next, x)

hasCommentBlockBefore(hp, head, point, comment) ==
    /\ OnChain(hp, head, point)
    /\ areBlocksEqual(hp, SkipEmptyBack(hp, head, WalkBefore(hp, head, point, 0)), comment)

\* { ...block, next: null }: the heap with the copy allocated; the copy's
\* reference is Len(hp) + 1.
CopyBlock(hp, block) == Append(hp, [hp[block] EXCEPT !.next = 0])

\* insertCommentBlock that splices the copy before the anchor's node without
\* looking at what precedes it.
insertCommentBlockAlways(hp, head, comment) ==
    LET hp1 == CopyBlock(hp, comment)
        node == Len(hp) + 1
        variable == findNextVariable(hp1, comment)
        point == IF variable # 0 THEN findVariableBlock(hp1, head, hp1[variable].key)
                 ELSE 0
    IN  IF point # 0
        THEN LET r == insertBefore(hp1, head, point, node) IN
             [heap |-> r.heap, head |-> r.head, op |-> "comment-before",
              node |-> node, point |-> point, notFound |-> r.notFound]
        ELSE IF hasCommentBlockBefore(hp1, head, head, comment)
             THEN [heap |-> hp1, head |-> head, op |-> "comment-at-head",
                   node |-> 0, point |-> 0, notFound |-> FALSE]
             ELSE [heap |-> appendToTail(hp1, head, node), head |-> head,
                   op |-> "comment-append", node |-> node, point |-> 0,
                   notFound |-> FALSE]


\* insertCommentBlock: the heap afterwards, the head returned, what was done.
insertCommentBlock(hp, head, comment) ==
    LET hp1 == CopyBlock(hp, comment)
        node == Len(hp) + 1
        variable == findNextVariable(hp1, comment)
        point == IF variable # 0 THEN findVariableBlock(hp1, head, hp1[variable].key)
                 ELSE 0
    IN  IF point # 0
        THEN IF ~hasCommentBlockBefore(hp1, head, point, comment)
             THEN LET r == insertBefore(hp1, head, point, node) IN
                  [heap |-> r.heap, head |-> r.head, op |-> "comment-before",
                   node |-> node, point |-> point, notFound |-> r.notFound]
             ELSE [heap |-> hp1, head |-> head, op |-> "comment-present",
                   node |-> 0, point |-> point, notFound |-> FALSE]
        ELSE IF hasCommentBlockBefore(hp1, head, head, comment)
             THEN [heap |-> hp1, head |-> head, op |-> "comment-at-head",
                   node |-> 0, point |-> 0, notFound |-> FALSE]
             ELSE [heap |-> appendToTail(hp1, head, node), head |-> head,
                   op |-> "comment-append", node |-> node, point |-> 0,
                   notFound |-> FALSE]

\* mergeVariable that finds the key in base and leaves the base value alone.
mergeVariableKeepValue(hp, head, current) ==
    LET baseBlock == findVariableBlock(hp, head, hp[current].key) IN
    IF isVariableBlock(hp, baseBlock)
    THEN [heap |-> [hp EXCEPT ![baseBlock].comments = hp[current].comments],
          head |-> head, op |-> "override", node |-> baseBlock, point |-> 0,
          notFound |-> FALSE]
    ELSE LET hp1 == CopyBlock(hp, current)
             newNode == Len(hp) + 1
             point == findIntersectionPoint(hp1, hp1[current].next, head)
         IN  IF point # 0
             THEN LET r == insertBefore(hp1, head, point, newNode) IN
                  [heap |-> r.heap, head |-> r.head, op |-> "insert",
                   node |-> newNode, point |-> point, notFound |-> r.notFound]
             ELSE [heap |-> appendToTail(hp1, head, newNode), head |-> head,
                   op |-> "append", node |-> newNode, point |-> 0,
                   notFound |-> FALSE]

\* mergeVariable that overrides and never adds a key base does not have.
mergeVariableOverrideOnly(hp, head, current) ==
    LET baseBlock == findVariableBlock(hp, head, hp[current].key) IN
    IF isVariableBlock(hp, baseBlock)
    THEN [heap |-> [hp EXCEPT ![baseBlock].value = hp[current].value,
                              ![baseBlock].raw =
                                  hp[baseBlock].key \o <<"=">> \o quoteValue(hp[current].value),
                              ![baseBlock].comments = hp[current].comments],
          head |-> head, op |-> "override", node |-> baseBlock, point |-> 0,
          notFound |-> FALSE]
    ELSE [heap |-> hp, head |-> head, op |-> "skip", node |-> 0, point |-> 0,
          notFound |-> FALSE]

\* mergeVariable that keeps the base block's comments ahead of the source's.
mergeVariableUnionComments(hp, head, current) ==
    LET baseBlock == findVariableBlock(hp, head, hp[current].key) IN
    IF isVariableBlock(hp, baseBlock)
    THEN [heap |-> [hp EXCEPT ![baseBlock].value = hp[current].value,
                              ![baseBlock].raw =
                                  hp[baseBlock].key \o <<"=">> \o quoteValue(hp[current].value),
                              ![baseBlock].comments =
                                  hp[baseBlock].comments \o hp[current].comments],
          head |-> head, op |-> "override", node |-> baseBlock, point |-> 0,
          notFound |-> FALSE]
    ELSE LET hp1 == CopyBlock(hp, current)
             newNode == Len(hp) + 1
             point == findIntersectionPoint(hp1, hp1[current].next, head)
         IN  IF point # 0
             THEN LET r == insertBefore(hp1, head, point, newNode) IN
                  [heap |-> r.heap, head |-> r.head, op |-> "insert",
                   node |-> newNode, point |-> point, notFound |-> r.notFound]
             ELSE [heap |-> appendToTail(hp1, head, newNode), head |-> head,
                   op |-> "append", node |-> newNode, point |-> 0,
                   notFound |-> FALSE]

\* mergeVariable that puts every new variable at the end of base.
mergeVariableAppendAlways(hp, head, current) ==
    LET baseBlock == findVariableBlock(hp, head, hp[current].key) IN
    IF isVariableBlock(hp, baseBlock)
    THEN [heap |-> [hp EXCEPT ![baseBlock].value = hp[current].value,
                              ![baseBlock].raw =
                                  hp[baseBlock].key \o <<"=">> \o quoteValue(hp[current].value),
                              ![baseBlock].comments = hp[current].comments],
          head |-> head, op |-> "override", node |-> baseBlock, point |-> 0,
          notFound |-> FALSE]
    ELSE LET hp1 == CopyBlock(hp, current)
             newNode == Len(hp) + 1
         IN  [heap |-> appendToTail(hp1, head, newNode), head |-> head,
              op |-> "append", node |-> newNode, point |-> 0,
              notFound |-> FALSE]


\* The body of the first loop that links the source's own block into base
\* instead of a copy of it.
mergeVariableLinkSource(hp, head, current) ==
    LET baseBlock == findVariableBlock(hp, head, hp[current].key) IN
    IF isVariableBlock(hp, baseBlock)
    THEN [heap |-> [hp EXCEPT ![baseBlock].value = hp[current].value,
                              ![baseBlock].raw =
                                  hp[baseBlock].key \o <<"=">> \o quoteValue(hp[current].value),
                              ![baseBlock].comments = hp[current].comments],
          head |-> head, op |-> "override", node |-> baseBlock, point |-> 0,
          notFound |-> FALSE]
    ELSE LET point == findIntersectionPoint(hp, hp[current].next, head) IN
         IF point # 0
         THEN LET r == insertBefore(hp, head, point, current) IN
              [heap |-> r.heap, head |-> r.head, op |-> "insert",
               node |-> current, point |-> point, notFound |-> r.notFound]
         ELSE [heap |-> appendToTail(hp, head, current), head |-> head,
               op |-> "append", node |-> current, point |-> 0,
               notFound |-> FALSE]


\* The body of mergeTwo's first loop for a variable block current of source.
mergeVariable(hp, head, current) ==
    LET baseBlock == findVariableBlock(hp, head, hp[current].key) IN
    IF isVariableBlock(hp, baseBlock)
    THEN [heap |-> [hp EXCEPT ![baseBlock].value = hp[current].value,
                              ![baseBlock].raw =
                                  hp[baseBlock].key \o <<"=">> \o quoteValue(hp[current].value),
                              ![baseBlock].comments = hp[current].comments],
          head |-> head, op |-> "override", node |-> baseBlock, point |-> 0,
          notFound |-> FALSE]
    ELSE LET hp1 == CopyBlock(hp, current)
             newNode == Len(hp) + 1
             point == findIntersectionPoint(hp1, hp1[current].next, head)
         IN  IF point # 0
             THEN LET r == insertBefore(hp1, head, point, newNode) IN
                  [heap |-> r.heap, head |-> r.head, op |-> "insert",
                   node |-> newNode, point |-> point, notFound |-> r.notFound]
             ELSE [heap |-> appendToTail(hp1, head, newNode), head |-> head,
                   op |-> "append", node |-> newNode, point |-> 0,
                   notFound |-> FALSE]

-----------------------------------------------------------------------------
(* Bounds and inputs *)

MaxBaseLines == 2
MaxSrcLines == 3
MaxFoldLines == 2
MaxOrderBase == 2
MaxOrderLines == 4
MaxParseLines == 4
MaxValueLen == 3
MaxSpare == 4

MaxDisjointLines == 3


MaxNullLines == 2

MaxCliSrcLines == 2
MaxCliDestLines == 2
MaxFileLines == 2

\* The non-empty sequences over S of at most n elements.
SeqsUpTo(S, n) == UNION {[1..k -> S] : k \in 1..n}

\* The texts of at most n lines taken from pool.
TextsOf(pool, n) == {Join(ls, <<NL>>) : ls \in SeqsUpTo(pool, n)}

Comment1 == <<"#", "c">>
Comment2 == <<"#", "d">>

\* Lines of the first (base) and of the second (source) text of a merge run.
BasePool == {<<"A", "=", "0">>, <<"B", "=", "0">>, Comment1, Comment2, <<>>}
SrcPool == {<<"A", "=", "1">>, <<"B", "=", "1">>, Comment1, Comment2, <<>>}

\* Lines of the i-th text of a fold over three arguments: key A twice, with
\* two values, and key B.
FoldDigit == <<"1", "2", "3">>
FoldAlt == <<"4", "5", "6">>
FoldPool(i) == {<<"A", "=", FoldDigit[i]>>, <<"A", "=", FoldAlt[i]>>,
                <<"B", "=", FoldDigit[i]>>}

\* Variable-only texts over four keys, for where new variables are placed.
OrderKeys == {"P", "Q", "X", "Y"}
OrderLine(k, v) == <<k, "=", v>>

\* The texts of 1..n variable lines with value v and pairwise different keys.
OrderTexts(v, n) ==
    {Join([i \in 1..Len(ks) |-> OrderLine(ks[i], v)], <<NL>>) :
        ks \in {q \in SeqsUpTo(OrderKeys, n) :
                    \A i, j \in 1..Len(q) : i # j => q[i] # q[j]}}

\* Lines of the three arguments of a fold over documents that may or may not
\* share keys: the first has the keys P and Q, the second X, Y and the first's
\* P, the third Z and a comment.
DisjointPool(i) ==
    IF i = 1 THEN {<<"P", "=", "1">>, <<"Q", "=", "1">>}
    ELSE IF i = 2 THEN {<<"X", "=", "2">>, <<"Y", "=", "2">>, <<"P", "=", "2">>}
    ELSE {<<"Z", "=", "3">>, Comment2}


\* Lines of the first two arguments of a fold whose arguments may be null or
\* hold no variable: key A with two values, a comment, blank lines.
NullPool == {<<"A", "=", "1">>, <<"A", "=", "2">>, Comment1, <<>>, <<" ">>}
ThirdText == <<"B", "=", "3">>


\* No two variable lines of the text have the same key.
UniqueKeys(t) ==
    LET ls == SplitLines(t) IN
    \A i, j \in 1..Len(ls) :
        (i < j /\ parseLine(ls[i]).type = "variable" /\ parseLine(ls[j]).type = "variable")
            => parseLine(ls[i]).key # parseLine(ls[j]).key

DB_HOST == <<"D", "B", "_", "H", "O", "S", "T">>
DB_PORT == <<"D", "B", "_", "P", "O", "R", "T">>
API_URL == <<"A", "P", "I", "_", "U", "R", "L">>
API_KEY == <<"A", "P", "I", "_", "K", "E", "Y">>

\* Files of a mergeEnvFiles run.  The first source: DB_HOST with the value
\* the destination has or with another one, and two keys the destination
\* lacks.  The second source: DB_HOST with a third value.  The destination:
\* DB_HOST, API_URL (once with a backslash in the value), a comment.
CliSrcPool == {DB_HOST \o <<"=", "0">>, DB_HOST \o <<"=", "1">>,
               DB_PORT \o <<"=", "1">>, API_KEY \o <<"=", "1">>}
CliSrcTexts == {t \in TextsOf(CliSrcPool, MaxCliSrcLines) : UniqueKeys(t)}
CliSecondText == DB_HOST \o <<"=", "2">>
CliDestPool == {DB_HOST \o <<"=", "0">>, API_URL \o <<"=", "0">>,
                API_URL \o <<"=", BS, "n">>, Comment2}
CliDestTexts == {t \in TextsOf(CliDestPool, MaxCliDestLines) : UniqueKeys(t)}
Strategies == {"interactive", "overwrite", "keep"}

\* Contents of the two files of a direct cleanupRedundantBackup call.
FilePool == {<<"A", "=", "0">>, <<"A", "=", "1">>, <<>>}
FileTexts == TextsOf(FilePool, MaxFileLines)


\* Lines for parsing: variables (plain, spaced, quoted, escaped), comments
\* (plain, indented), a line that is no variable, blank lines.
ParsePool == {<<"A", "=", "1">>, <<"B", " ", "=", " ", DQ, "x", " ", "y", DQ>>,
              <<"C", "=", BS, "n">>, Comment1, <<" ", "#", "d">>,
              <<"1", "=", "x">>, <<>>, <<" ">>}

\* Characters of the text after "=" on a variable line.
ValueChars == {"a", "n", "r", "t", BS, DQ, SQ, " ", "#"}
ValueTexts == {<<>>} \cup SeqsUpTo(ValueChars, MaxValueLen)

-----------------------------------------------------------------------------
(* The run *)

NoFrame == [vs |-> <<>>, i |-> 0, head |-> 0, source |-> 0, current |-> 0, call |-> 0]
NoPre == [heap |-> <<>>, head |-> 0]
NoLast == [op |-> "none", src |-> 0, node |-> 0, point |-> 0, notFound |-> FALSE]

\* The paths of a run: two source files, the destination, the backup.
Paths == {"s1", "s2", "dst", "bak"}
NoFiles == [p \in Paths |-> Null]
NoCli == [sourcePaths |-> <<>>, backup |-> FALSE, strategy |-> "none",
          destination |-> 0, current |-> 0, backupPath |-> "undefined",
          conflictCount |-> 0, exitCode |-> "none", writes |-> 0,
          removed |-> FALSE, original |-> Null, backupBefore |-> Null,
          cancelled |-> FALSE, waiting |-> FALSE, outside |-> Null]
CliVars == <<fs, cli>>

InitWith(ts, md) ==
    /\ texts = ts
    /\ mode = md
    /\ heap = <<>>
    /\ docs = <<>>
    /\ pc = "start"
    /\ frame = NoFrame
    /\ m = 0
    /\ pre = NoPre
    /\ last = NoLast
    /\ ser1 = <<>>
    /\ ser2 = <<>>
    /\ raw0 = <<>>
    /\ val1 = <<>>
    /\ quoted = <<>>
    /\ val2 = <<>>
    /\ fs = NoFiles
    /\ cli = NoCli

ValueVars == <<raw0, val1, quoted, val2>>

\* The number of lines of the input texts ts[i..].
RECURSIVE TotalLines(_, _)
TotalLines(ts, i) ==
    IF i > Len(ts) THEN 0
    ELSE (IF ts[i] = Null THEN 0 ELSE Len(SplitLines(ts[i]))) + TotalLines(ts, i + 1)

\* The run is cut when the heap holds this many blocks: more than two calls
\* whose loops visit only blocks that existed when the call started allocate.
HeapCap ==
    MaxSpare + 5 * (TotalLines(texts, 1)
                    + (IF fs["dst"] = Null THEN 0 ELSE Len(SplitLines(fs["dst"]))))

\* The heap and the heads after parsing ts[i..] into it.
RECURSIVE ParseAll(_, _, _, _)
ParseAll(ts, i, hp, heads) ==
    IF i > Len(ts) THEN [heap |-> hp, heads |-> heads]
    ELSE IF ts[i] = Null THEN ParseAll(ts, i + 1, hp, Append(heads, 0))
    ELSE LET r == Link(hp, parseEnvFile(ts[i])) IN
         ParseAll(ts, i + 1, r.heap, Append(heads, r.head))

\* const a = parseEnvFile(texts[1]), b = parseEnvFile(texts[2]), ...
ParseInputs ==
    /\ pc = "start"
    /\ LET r == ParseAll(texts, 1, heap, <<>>) IN
        /\ heap' = r.heap
        /\ docs' = r.heads
    /\ pc' = "parsed"
    /\ UNCHANGED <<texts, frame, m, pre, last, ser1, ser2, mode, ValueVars, CliVars>>

\* validSources that stops at the first null argument.
RECURSIVE validSourcesUntilNull(_)
validSourcesUntilNull(sources) ==
    IF sources = <<>> \/ Head(sources) = 0 THEN <<>>
    ELSE <<Head(sources)>> \o validSourcesUntilNull(Tail(sources))


\* sources.filter((s) => s !== null)
RECURSIVE validSources(_)
validSources(sources) ==
    IF sources = <<>> THEN <<>>
    ELSE IF Head(sources) = 0 THEN validSources(Tail(sources))
    ELSE <<Head(sources)>> \o validSources(Tail(sources))

\* mergeSources returning `result` to the run: after the first call the run
\* keeps the head in m and serializes it; the inner call of the self-merge
\* hands its result to the outer call; the last call's result is serialized.
Return(hp, result, call) ==
    /\ frame' = NoFrame
    /\ IF call = 1
       THEN /\ m' = result
            /\ ser1' = serializeToString(Chain(hp, result))
            /\ pc' = "merged"
            /\ ser2' = ser2
       ELSE IF call = 2 /\ mode = "self"
       THEN /\ m' = result
            /\ pc' = "again"
            /\ UNCHANGED <<ser1, ser2>>
       ELSE /\ ser2' = serializeToString(Chain(hp, result))
            /\ pc' = "done"
            /\ UNCHANGED <<m, ser1>>

\* mergeSources(...sources) up to its first mergeTwo call, or to its return
\* when fewer than two sources are valid.
Enter(hp, sources, call) ==
    LET vs == validSources(sources) IN
    /\ heap' = hp
    /\ last' = NoLast
    /\ IF Len(vs) = 0 THEN Return(hp, 0, call) /\ pre' = pre
       ELSE IF Len(vs) = 1 THEN Return(hp, vs[1], call) /\ pre' = pre
       ELSE /\ frame' = [vs |-> vs, i |-> 2, head |-> vs[1], source |-> vs[2],
                         current |-> vs[2], call |-> call]
            /\ pre' = [heap |-> hp, head |-> vs[1]]
            /\ pc' = "pass1"
            /\ UNCHANGED <<m, ser1, ser2>>

\* const m = mergeSources(a, b, ...)
CallMergeSources ==
    /\ pc = "parsed"
    /\ Enter(heap, docs, 1)
    /\ UNCHANGED <<texts, docs, mode, ValueVars, CliVars>>

\* One iteration of mergeTwo's first loop.
Pass1Step ==
    /\ pc = "pass1"
    /\ frame.current # 0
    /\ Len(heap) < HeapCap
    /\ LET current == frame.current
           r == IF isVariableBlock(heap, current)
                THEN mergeVariable(heap, frame.head, current)
                ELSE [heap |-> heap, head |-> frame.head, op |-> "skip",
                      node |-> 0, point |-> 0, notFound |-> FALSE]
       IN  /\ heap' = r.heap
           /\ frame' = [frame EXCEPT !.head = r.head, !.current = r.heap[current].next]
           /\ last' = [op |-> r.op, src |-> current, node |-> r.node,
                       point |-> r.point, notFound |-> r.notFound]
    /\ UNCHANGED <<texts, docs, pc, m, pre, ser1, ser2, mode, ValueVars, CliVars>>

\* The first loop ends: current = source for the second loop.
Pass1Exit ==
    /\ pc = "pass1"
    /\ frame.current = 0
    /\ frame' = [frame EXCEPT !.current = frame.source]
    /\ pc' = "pass2"
    /\ UNCHANGED <<texts, heap, docs, m, pre, last, ser1, ser2, mode, ValueVars, CliVars>>

\* One iteration of mergeTwo's second loop.
Pass2Step ==
    /\ pc = "pass2"
    /\ frame.current # 0
    /\ Len(heap) < HeapCap
    /\ LET current == frame.current
           r == IF isCommentBlock(heap, current)
                THEN insertCommentBlock(heap, frame.head, current)
                ELSE [heap |-> heap, head |-> frame.head, op |-> "skip",
                      node |-> 0, point |-> 0, notFound |-> FALSE]
       IN  /\ heap' = r.heap
           /\ frame' = [frame EXCEPT !.head = r.head, !.current = r.heap[current].next]
           /\ last' = [op |-> r.op, src |-> current, node |-> r.node,
                       point |-> r.point, notFound |-> r.notFound]
    /\ UNCHANGED <<texts, docs, pc, m, pre, ser1, ser2, mode, ValueVars, CliVars>>

\* mergeTwo returns head to mergeSources, which merges the next source into
\* it or returns.
MergeTwoReturn ==
    /\ pc = "pass2"
    /\ frame.current = 0
    /\ IF frame.i < Len(frame.vs)
       THEN /\ frame' = [frame EXCEPT !.i = @ + 1,
                                      !.source = frame.vs[frame.i + 1],
                                      !.current = frame.vs[frame.i + 1]]
            /\ pre' = [heap |-> heap, head |-> frame.head]
            /\ pc' = "pass1"
            /\ UNCHANGED <<m, ser1, ser2>>
       ELSE Return(heap, frame.head, frame.call) /\ pre' = pre
    /\ UNCHANGED <<texts, heap, docs, last, mode, ValueVars, CliVars>>

\* mergeSources(m, parseEnvFile(texts[2])): the same source text, parsed anew.
Remerge ==
    /\ pc = "merged"
    /\ mode = "remerge"
    /\ LET r == Link(heap, parseEnvFile(texts[2])) IN
        Enter(r.heap, <<m, r.head>>, 2)
    /\ UNCHANGED <<texts, docs, mode, ValueVars, CliVars>>

\* mergeSources(m, a, b) with the documents a and b of the first call.
Refold ==
    /\ pc = "merged"
    /\ mode = "refold"
    /\ Enter(heap, <<m>> \o docs, 2)
    /\ UNCHANGED <<texts, docs, mode, ValueVars, CliVars>>

\* The inner call of s2: mergeSources(base, env) once more, on the documents
\* of the first call as that call left them.
SelfAgain ==
    /\ pc = "merged"
    /\ mode = "self"
    /\ Enter(heap, docs, 2)
    /\ UNCHANGED <<texts, docs, mode, ValueVars, CliVars>>

\* The outer call of s2: mergeSources(mergeSources(base, env), parseEnvFile(s1))
\* with s1 the text the first call's result serialized to.
SelfMerge ==
    /\ pc = "again"
    /\ mode = "self"
    /\ LET r == Link(heap, parseEnvFile(ser1)) IN
        Enter(r.heap, <<m, r.head>>, 3)
    /\ UNCHANGED <<texts, docs, mode, ValueVars, CliVars>>

MergeSteps == CallMergeSources \/ Pass1Step \/ Pass1Exit \/ Pass2Step \/ MergeTwoReturn

\* Two documents merged, then the same source text merged again.
Init ==
    \E a \in TextsOf(BasePool, MaxBaseLines), b \in TextsOf(SrcPool, MaxSrcLines) :
        InitWith(<<a, b>>, "remerge")

Next == ParseInputs \/ MergeSteps \/ Remerge

Spec == Init /\ [][Next]_vars

\* Two documents merged, then mergeSources(m, a, b) on the same objects.
InitRefold ==
    \E a \in TextsOf(BasePool, MaxBaseLines), b \in TextsOf(SrcPool, MaxSrcLines) :
        InitWith(<<a, b>>, "refold")

NextRefold == ParseInputs \/ MergeSteps \/ Refold

SpecRefold == InitRefold /\ [][NextRefold]_vars

\* Two documents merged, merged again, then the parse of the first result's
\* text merged into the second result.
InitSelf ==
    \E a \in TextsOf(BasePool, MaxBaseLines), b \in TextsOf(SrcPool, MaxSrcLines) :
        InitWith(<<a, b>>, "self")

NextSelf == ParseInputs \/ MergeSteps \/ SelfAgain \/ SelfMerge

SpecSelf == InitSelf /\ [][NextSelf]_vars

\* mergeSources over three arguments, each a document or null.
InitFold ==
    \E d1 \in TextsOf(FoldPool(1), MaxFoldLines) \cup {Null},
       d2 \in TextsOf(FoldPool(2), MaxFoldLines) \cup {Null},
       d3 \in TextsOf(FoldPool(3), MaxFoldLines) \cup {Null} :
        InitWith(<<d1, d2, d3>>, "fold")

NextFold == ParseInputs \/ MergeSteps

SpecFold == InitFold /\ [][NextFold]_vars

\* Two variable-only documents without repeated keys.
InitOrder ==
    \E a \in OrderTexts("0", MaxOrderBase), b \in OrderTexts("1", MaxOrderLines) :
        InitWith(<<a, b>>, "fold")

SpecOrder == InitOrder /\ [][NextFold]_vars

\* mergeSources over three documents, each with keys of its own.
InitDisjoint ==
    \E d1 \in TextsOf(DisjointPool(1), MaxDisjointLines),
       d2 \in TextsOf(DisjointPool(2), MaxDisjointLines),
       d3 \in TextsOf(DisjointPool(3), MaxDisjointLines) :
        InitWith(<<d1, d2, d3>>, "fold")

SpecDisjoint == InitDisjoint /\ [][NextFold]_vars


\* mergeSources over three arguments: two that are null, a document without
\* variables or a document with key A, and a third that is null or B=3.
InitNull ==
    \E d1 \in TextsOf(NullPool, MaxNullLines) \cup {Null},
       d2 \in TextsOf(NullPool, MaxNullLines) \cup {Null},
       d3 \in {ThirdText, Null} :
        InitWith(<<d1, d2, d3>>, "fold")

SpecNull == InitNull /\ [][NextFold]_vars


\* const s = serializeToString(d) for the parsed document d.
Reserialize ==
    /\ pc = "parsed"
    /\ ser1' = serializeToString(Chain(heap, docs[1]))
    /\ pc' = "serialized"
    /\ UNCHANGED <<texts, heap, docs, frame, m, pre, last, ser2, mode, ValueVars, CliVars>>

\* parseEnvFile(s)
Reparse ==
    /\ pc = "serialized"
    /\ LET r == Link(heap, parseEnvFile(ser1)) IN
        /\ heap' = r.heap
        /\ docs' = Append(docs, r.head)
    /\ pc' = "reparsed"
    /\ UNCHANGED <<texts, frame, m, pre, last, ser1, ser2, mode, ValueVars, CliVars>>

\* One text parsed, serialized and parsed again.
InitParse == \E t \in TextsOf(ParsePool, MaxParseLines) : InitWith(<<t>>, "parse")

NextParse == ParseInputs \/ Reserialize \/ Reparse

SpecParse == InitParse /\ [][NextParse]_vars

\* One variable line K = "..." whose quoted text is any text over ValueChars:
\* parsed, serialized, parsed again.
InitQuote ==
    \E v \in ValueTexts :
        InitWith(<< <<"K", " ", "=", " ", DQ>> \o v \o <<DQ>> >>, "parse")

SpecQuote == InitQuote /\ [][NextParse]_vars


MergeVars == <<texts, heap, docs, frame, m, pre, last, ser1, ser2, mode>>

\* parseLine decoding the text after "=".
Unquote ==
    /\ pc = "value"
    /\ val1' = unquoteValue(raw0)
    /\ pc' = "unquoted"
    /\ UNCHANGED <<MergeVars, CliVars, raw0, quoted, val2>>

\* serializeToString quoting the value.
Quote ==
    /\ pc = "unquoted"
    /\ quoted' = quoteValue(val1)
    /\ pc' = "quoted"
    /\ UNCHANGED <<MergeVars, CliVars, raw0, val1, val2>>

\* parseLine decoding the serialized value.
UnquoteAgain ==
    /\ pc = "quoted"
    /\ val2' = unquoteValue(quoted)
    /\ pc' = "requoted"
    /\ UNCHANGED <<MergeVars, CliVars, raw0, val1, quoted>>

\* A value decoded, quoted and decoded again.
InitValue ==
    \E v \in ValueTexts :
        /\ raw0 = v
        /\ pc = "value"
        /\ texts = <<>> /\ mode = "value" /\ heap = <<>> /\ docs = <<>>
        /\ frame = NoFrame /\ m = 0 /\ pre = NoPre /\ last = NoLast
        /\ ser1 = <<>> /\ ser2 = <<>>
        /\ val1 = <<>> /\ quoted = <<>> /\ val2 = <<>>
        /\ fs = NoFiles /\ cli = NoCli

NextValue == Unquote \/ Quote \/ UnquoteAgain

SpecValue == InitValue /\ [][NextValue]_vars

-----------------------------------------------------------------------------
(* backup.ts, writer.ts and the command line: mergeEnvFiles *)

\* existsSync(path)
existsSync(f, path) == f[path] # Null

\* generateBackupPath(originalPath): the backup path of the run.
generateBackupPath(originalPath) == "bak"

\* createBackup(filePath): the files after the call and the path it returns.
createBackup(f, filePath) ==
    IF ~existsSync(f, filePath) THEN [fs |-> f, path |-> "undefined"]
    ELSE LET backupPath == generateBackupPath(filePath) IN
         [fs |-> [f EXCEPT ![backupPath] = f[filePath]], path |-> backupPath]

\* areFilesIdentical(filePath1, filePath2)
areFilesIdentical(f, filePath1, filePath2) ==
    IF ~existsSync(f, filePath1) \/ ~existsSync(f, filePath2) THEN FALSE
    ELSE f[filePath1] = f[filePath2]

\* cleanupRedundantBackup that removes the backup whenever it exists.
cleanupRedundantBackupAlways(f, originalPath, backupPath) ==
    IF ~existsSync(f, backupPath) THEN [fs |-> f, removed |-> FALSE]
    ELSE [fs |-> [f EXCEPT ![backupPath] = Null], removed |-> TRUE]

\* cleanupRedundantBackup(originalPath, backupPath): the files after the call
\* and what it returns.
cleanupRedundantBackup(f, originalPath, backupPath) ==
    IF ~existsSync(f, backupPath) THEN [fs |-> f, removed |-> FALSE]
    ELSE IF areFilesIdentical(f, originalPath, backupPath)
         THEN [fs |-> [f EXCEPT ![backupPath] = Null], removed |-> TRUE]
         ELSE [fs |-> f, removed |-> FALSE]

MergeLocals == <<frame, m, pre, last, ser1, ser2>>

\* The first loop of mergeEnvFiles that lets a missing source file pass.
CheckSourcesNever ==
    /\ pc = "check"
    /\ pc' = "start"
    /\ UNCHANGED <<texts, heap, docs, MergeLocals, mode, ValueVars, CliVars>>

\* for (const sourcePath of sourcePaths) if (!existsSync(sourcePath)) throw;
\* the catch block exits with code 1.
CheckSources ==
    /\ pc = "check"
    /\ IF \E i \in 1..Len(cli.sourcePaths) : ~existsSync(fs, cli.sourcePaths[i])
       THEN /\ pc' = "exited"
            /\ cli' = [cli EXCEPT !.exitCode = 1]
       ELSE /\ pc' = "start"
            /\ cli' = cli
    /\ UNCHANGED <<texts, heap, docs, MergeLocals, mode, ValueVars, fs>>

\* let destination = destinationExists ? parseEnvFile(readFileSync(...)) : null
ReadDestination ==
    /\ pc = "merged"
    /\ mode = "cli"
    /\ IF existsSync(fs, "dst")
       THEN LET r == Link(heap, parseEnvFile(fs["dst"])) IN
            /\ heap' = r.heap
            /\ cli' = [cli EXCEPT !.destination = r.head]
       ELSE /\ heap' = heap
            /\ cli' = [cli EXCEPT !.destination = 0]
    /\ pc' = "backup"
    /\ UNCHANGED <<texts, docs, MergeLocals, mode, ValueVars, fs>>

\* if (options.backup && destinationExists) backupPath = createBackup(...);
\* then current = destination for the conflict loop.
BackupStep ==
    /\ pc = "backup"
    /\ IF cli.backup /\ existsSync(fs, "dst")
       THEN LET r == createBackup(fs, "dst") IN
            /\ fs' = r.fs
            /\ cli' = [cli EXCEPT !.backupPath = r.path, !.current = cli.destination]
       ELSE /\ fs' = fs
            /\ cli' = [cli EXCEPT !.current = cli.destination]
    /\ pc' = "conflicts"
    /\ UNCHANGED <<texts, heap, docs, MergeLocals, mode, ValueVars>>

\* findVariableBlock(merged, current.key) for the block the conflict loop is at.
MergedBlock ==
    IF isVariableBlock(heap, cli.current)
    THEN findVariableBlock(heap, m, heap[cli.current].key)
    ELSE 0

\* The block the conflict loop is at is a variable that merged has with
\* another value.
InConflict ==
    /\ cli.current # 0
    /\ MergedBlock # 0
    /\ heap[MergedBlock].value # heap[cli.current].value

\* What the loop does with a conflict: the strategy of the options, or the
\* answer to the prompt.
Resolutions ==
    IF cli.strategy = "interactive" THEN {"overwrite", "keep"}
    ELSE IF cli.strategy = "overwrite" THEN {"overwrite"}
    ELSE {"keep"}

\* One iteration of the conflict loop that does not wait: the block is no
\* conflict, or the strategy of the options decides.
ConflictStep ==
    /\ pc = "conflicts"
    /\ ~cli.waiting
    /\ cli.current # 0
    /\ InConflict => cli.strategy # "interactive"
    /\ IF ~InConflict
       THEN /\ heap' = heap
            /\ cli' = [cli EXCEPT !.current = heap[cli.current].next]
       ELSE \E strategy \in Resolutions :
            /\ heap' = IF strategy = "overwrite"
                       THEN [heap EXCEPT
                                ![cli.current].value = heap[MergedBlock].value,
                                ![cli.current].raw =
                                    heap[cli.current].key \o <<"=">>
                                        \o quoteValue(heap[MergedBlock].value)]
                       ELSE heap
            /\ cli' = [cli EXCEPT !.conflictCount = @ + 1,
                                  !.current = heap[cli.current].next]
    /\ UNCHANGED <<texts, docs, pc, MergeLocals, mode, ValueVars, fs>>

\* An iteration on a conflict with strategy "interactive", up to the await:
\* conflictCount++, then resolveInteractively prints the conflict and waits
\* for the answer.
Prompt ==
    /\ pc = "conflicts"
    /\ ~cli.waiting
    /\ InConflict
    /\ cli.strategy = "interactive"
    /\ cli' = [cli EXCEPT !.conflictCount = @ + 1, !.waiting = TRUE]
    /\ UNCHANGED <<texts, heap, docs, pc, MergeLocals, mode, ValueVars, fs>>

\* The text a write from outside the run leaves in the destination file.
OutsideText(d) == d \o <<NL>> \o <<"N", "E", "W", "=", "1">>

\* While the prompt waits the event loop runs: the destination file is
\* written from outside the run.
OutsideWrite ==
    /\ pc = "conflicts"
    /\ cli.waiting
    /\ cli.outside = Null
    /\ fs' = [fs EXCEPT !["dst"] = OutsideText(fs["dst"])]
    /\ cli' = [cli EXCEPT !.outside = OutsideText(fs["dst"])]
    /\ UNCHANGED <<texts, heap, docs, pc, MergeLocals, mode, ValueVars>>

\* The prompt is answered: the rest of the iteration.
Answer ==
    /\ pc = "conflicts"
    /\ cli.waiting
    /\ \E strategy \in Resolutions :
            /\ heap' = IF strategy = "overwrite"
                       THEN [heap EXCEPT
                                ![cli.current].value = heap[MergedBlock].value,
                                ![cli.current].raw =
                                    heap[cli.current].key \o <<"=">>
                                        \o quoteValue(heap[MergedBlock].value)]
                       ELSE heap
            /\ cli' = [cli EXCEPT !.waiting = FALSE,
                                  !.current = heap[cli.current].next]
    /\ UNCHANGED <<texts, docs, pc, MergeLocals, mode, ValueVars, fs>>

\* The prompt is cancelled: resolveInteractively throws, the catch block
\* exits with code 1.
Cancel ==
    /\ pc = "conflicts"
    /\ cli.waiting
    /\ cli' = [cli EXCEPT !.waiting = FALSE, !.cancelled = TRUE, !.exitCode = 1]
    /\ pc' = "exited"
    /\ UNCHANGED <<texts, heap, docs, MergeLocals, mode, ValueVars, fs>>

\* const final = mergeSources(merged, destination)
FinalMerge ==
    /\ pc = "conflicts"
    /\ ~cli.waiting
    /\ cli.current = 0
    /\ Enter(heap, <<m, cli.destination>>, 2)
    /\ UNCHANGED <<texts, docs, mode, ValueVars, CliVars>>

\* writeEnvFile(destinationPath, final): ser2 is serializeToString(final).
WriteFile ==
    /\ pc = "done"
    /\ mode = "cli"
    /\ fs' = [fs EXCEPT !["dst"] = ser2]
    /\ cli' = [cli EXCEPT !.writes = @ + 1]
    /\ pc' = "written"
    /\ UNCHANGED <<texts, heap, docs, MergeLocals, mode, ValueVars>>

\* if (backupPath && cleanupRedundantBackup(destinationPath, backupPath));
\* mergeEnvFiles returns and the process ends with code 0.
CleanupStep ==
    /\ pc = "written"
    /\ IF cli.backupPath # "undefined"
       THEN LET r == cleanupRedundantBackup(fs, "dst", cli.backupPath) IN
            /\ fs' = r.fs
            /\ cli' = [cli EXCEPT !.removed = r.removed, !.exitCode = 0]
       ELSE /\ fs' = fs
            /\ cli' = [cli EXCEPT !.exitCode = 0]
    /\ pc' = "exited"
    /\ UNCHANGED <<texts, heap, docs, MergeLocals, mode, ValueVars>>

\* cleanupRedundantBackup(original, backup) called on its own.
CleanupCall ==
    /\ pc = "call"
    /\ mode = "cleanup"
    /\ LET r == cleanupRedundantBackup(fs, "dst", "bak") IN
        /\ fs' = r.fs
        /\ cli' = [cli EXCEPT !.removed = r.removed]
    /\ pc' = "returned"
    /\ UNCHANGED <<texts, heap, docs, MergeLocals, mode, ValueVars>>

\* The state a run starts in: the files, the arguments, no locals yet.
InitFiles(f, sourcePaths, backup, strategy, md, start) ==
    /\ fs = f
    /\ cli = [NoCli EXCEPT !.sourcePaths = sourcePaths, !.backup = backup,
                           !.strategy = strategy, !.original = f["dst"],
                           !.backupBefore = f["bak"]]
    /\ texts = [i \in 1..Len(sourcePaths) |-> f[sourcePaths[i]]]
    /\ mode = md
    /\ pc = start
    /\ heap = <<>> /\ docs = <<>>
    /\ frame = NoFrame /\ m = 0 /\ pre = NoPre /\ last = NoLast
    /\ ser1 = <<>> /\ ser2 = <<>>
    /\ raw0 = <<>> /\ val1 = <<>> /\ quoted = <<>> /\ val2 = <<>>

\* envmerge s1 [s2] dst: a first source that may be missing, a second one that
\* may be absent from the command line or missing, a destination that may
\* not exist, no backup file yet.
InitRun ==
    \E s1 \in CliSrcTexts \cup {Null}, s2 \in {CliSecondText, Null}, two \in BOOLEAN,
       d \in CliDestTexts \cup {Null}, backup \in BOOLEAN, strategy \in Strategies :
        /\ (~two => s2 = Null)
        /\ InitFiles([s1 |-> s1, s2 |-> s2, dst |-> d, bak |-> Null],
                     IF two THEN <<"s1", "s2">> ELSE <<"s1">>,
                     backup, strategy, "cli", "check")

\* cleanupRedundantBackup called with two paths, each a file or not.
InitCall ==
    \E d \in FileTexts \cup {Null}, b \in FileTexts \cup {Null} :
        InitFiles([s1 |-> Null, s2 |-> Null, dst |-> d, bak |-> b],
                  <<>>, FALSE, "none", "cleanup", "call")

InitCli == InitRun \/ InitCall

NextCli ==
    \/ CheckSources \/ ParseInputs \/ MergeSteps \/ ReadDestination \/ BackupStep
    \/ ConflictStep \/ Prompt \/ OutsideWrite \/ Answer \/ Cancel
    \/ FinalMerge \/ WriteFile \/ CleanupStep
    \/ CleanupCall

SpecCli == InitCli /\ [][NextCli]_vars

-----------------------------------------------------------------------------

(* Properties *)

IsVariable(b) == b.type = "variable"
IsComment(b) == b.type = "comment"
IsEmpty(b) == b.type = "empty"

\* The variable blocks of a sequence of blocks, in order.
VariablesOf(blocks) == SelectSeq(blocks, IsVariable)

KeysOf(blocks) == {blocks[i].key : i \in {j \in 1..Len(blocks) : IsVariable(blocks[j])}}

\* The keys of the variable blocks, in order.
KeySeq(blocks) == [i \in 1..Len(VariablesOf(blocks)) |-> VariablesOf(blocks)[i].key]

\* The value of the first, and of the last, variable block with key K.
FirstValue(blocks, K) ==
    LET vs == VariablesOf(blocks)
        i == CHOOSE j \in 1..Len(vs) : vs[j].key = K /\ \A l \in 1..(j - 1) : vs[l].key # K
    IN  vs[i].value
LastValue(blocks, K) ==
    LET vs == VariablesOf(blocks)
        i == CHOOSE j \in 1..Len(vs) : vs[j].key = K /\ \A l \in (j + 1)..Len(vs) : vs[l].key # K
    IN  vs[i].value

\* The document the i-th input text parses to, as it was before any merge.
InputBlocks(i) == parseEnvFile(texts[i])

\* The arguments of the first mergeSources call that are not null.
ValidArgs == {i \in 1..Len(texts) : texts[i] # Null}
FirstValid == CHOOSE i \in ValidArgs : \A j \in ValidArgs : i <= j
Definers(K) == {i \in ValidArgs : K \in KeysOf(InputBlocks(i))}
InputKeys == UNION {KeysOf(InputBlocks(i)) : i \in ValidArgs}

\* The merged document of the first call.
Merged == Chain(heap, m)

KeyA == <<"A">>
KeyB == <<"B">>

\* C1: merging a fresh parse of the same source text into m = mergeSources(a, b)
\* again gives a document that serializes to the same text as m did.
C1_RemergeIdempotent == pc = "done" => ser2 = ser1

\* C2: after mergeSources over the arguments, the value findVariableBlock gives
\* for a key is the one of the rightmost document that defines the key.  A
\* merged-in document's value for a key is its last definition of it (each
\* definition overrides in turn); the base document's is the one
\* findVariableBlock gives there.
C2_OverridePrecedence ==
    pc = "merged" =>
        \A K \in InputKeys :
            LET r == CHOOSE i \in Definers(K) : \A j \in Definers(K) : j <= i IN
            heap[findVariableBlock(heap, m, K)].value =
                IF r = FirstValid THEN FirstValue(InputBlocks(r), K)
                ELSE LastValue(InputBlocks(r), K)

\* Three documents define A, the last one twice with two values, and the
\* merged A has the value of its last definition.
C2_Witness ==
    /\ pc = "merged"
    /\ ValidArgs = {1, 2, 3}
    /\ Definers(KeyA) = {1, 2, 3}
    /\ FirstValue(InputBlocks(3), KeyA) # LastValue(InputBlocks(3), KeyA)
    /\ heap[findVariableBlock(heap, m, KeyA)].value = LastValue(InputBlocks(3), KeyA)
    /\ heap[findVariableBlock(heap, m, KeyA)].value # FirstValue(InputBlocks(1), KeyA)

\* C4: the keys of mergeSources(d1, ..., dN) are the keys of the non-null
\* arguments together, and a key only the first (base) document defines keeps
\* the value it had there.
C4_KeyUnion ==
    pc = "merged" =>
        /\ KeysOf(Merged) = InputKeys
        /\ \A K \in InputKeys :
              Definers(K) = {FirstValid} =>
                  heap[findVariableBlock(heap, m, K)].value
                      = FirstValue(InputBlocks(FirstValid), K)

\* A null first argument, and both keys in the result: B only from the base
\* (the second argument), A only from the document merged into it.
C4_Witness ==
    /\ pc = "merged"
    /\ texts[1] = Null
    /\ Definers(KeyB) = {2}
    /\ Definers(KeyA) = {3}
    /\ KeysOf(Merged) = {KeyA, KeyB}
    /\ heap[findVariableBlock(heap, m, KeyB)].value = <<"2">>

\* The place of key K in a sequence of keys that holds it once.
Pos(keys, K) == CHOOSE i \in 1..Len(keys) : keys[i] = K

\* The keys only the d-th of the two input documents defines.
OnlyIn(d) == KeysOf(InputBlocks(d)) \ KeysOf(InputBlocks(3 - d))

\* C3: two variables whose keys only b has stand in mergeSources(a, b) in the
\* order they had in b, and two whose keys only a has in the order they had in a.
C3_OrderPreserved ==
    pc = "merged" =>
        \A d \in {1, 2} : \A X, Y \in OnlyIn(d) :
            Pos(KeySeq(InputBlocks(d)), X) < Pos(KeySeq(InputBlocks(d)), Y)
                => Pos(KeySeq(Merged), X) < Pos(KeySeq(Merged), Y)

\* Two documents are alike block by block: kind, key, value, comments, lines.
SameStructure(d, e) ==
    /\ Len(d) = Len(e)
    /\ \A i \in 1..Len(d) :
          /\ d[i].type = e[i].type
          /\ d[i].key = e[i].key
          /\ d[i].value = e[i].value
          /\ d[i].comments = e[i].comments
          /\ d[i].lines = e[i].lines

\* C5: parseEnvFile(serializeToString(d)) has the block kinds of d = parseEnvFile(t),
\* the same key, value and comments on each variable block and the same lines
\* on each comment block.
C5_StructuralRoundTrip ==
    pc = "reparsed" => SameStructure(Chain(heap, docs[1]), Chain(heap, docs[2]))

\* C6: unquoteValue(quoteValue(v)) = v for every value v unquoteValue gives.
C6_ValueRoundTrip == pc = "requoted" => val2 = val1

\* How many of the lines serializeBlocks gives for the blocks are comment or
\* blank lines with text t (a blank line, like the marker, has the empty text).
CountText(blocks, t) ==
    LET lines == serializeBlocks(blocks) IN
    Cardinality({i \in 1..Len(lines) :
                    lines[i].type # "variable" /\ LineText(lines[i]) = t})

NonVariableTexts(blocks) ==
    LET lines == serializeBlocks(blocks) IN
    {LineText(lines[i]) : i \in {j \in 1..Len(lines) : lines[j].type # "variable"}}

\* C7: every comment line and every blank line of each input document is in
\* the merged document, as many times as in that input.
C7_CommentsAndBlanksKept ==
    pc = "merged" =>
        \A i \in ValidArgs : \A t \in NonVariableTexts(InputBlocks(i)) :
            CountText(Merged, t) >= CountText(InputBlocks(i), t)

\* A second call that has returned gave a document that serializes to the
\* text the first call's result serialized to.
C9_Returned == pc = "done" => ser2 = ser1

\* The source variable block the first loop is about to process has its key
\* in base.
OverrideDue ==
    /\ pc = "pass1"
    /\ frame.current # 0
    /\ Len(heap) < HeapCap
    /\ isVariableBlock(heap, frame.current)
    /\ findVariableBlock(heap, frame.head, heap[frame.current].key) # 0

\* C8: when mergeTwo finds source variable v's key in base, the base block's
\* comments become v's comments and nothing else, its value v's value, and
\* the chain of base stays as it was: same blocks, same order.
C8_OverrideReplacesComments ==
    [][OverrideDue =>
        LET v == frame.current
            baseBlock == findVariableBlock(heap, frame.head, heap[v].key)
        IN  /\ heap'[baseBlock].comments = heap[v].comments
            /\ heap'[baseBlock].value = heap[v].value
            /\ heap'[baseBlock].key = heap[baseBlock].key
            /\ ChainIds(heap', frame'.head) = ChainIds(heap, frame.head)]_vars

\* An override has just dropped the comments the base block had: the source
\* variable has none.
C8_Witness ==
    /\ pc = "pass1"
    /\ last.op = "override"
    /\ pre.heap[last.node].comments # <<>>
    /\ heap[last.src].comments = <<>>
    /\ heap[last.node].comments = <<>>
    /\ heap[last.node].value = heap[last.src].value

\* The second call is cut at the heap cap: its loop is still visiting blocks
\* after allocating more copies than there were blocks to visit.
RefoldCut ==
    /\ pc \in {"pass1", "pass2"}
    /\ frame.call = 2
    /\ frame.current # 0
    /\ Len(heap) >= HeapCap

\* C9: mergeSources(mergeSources(a, b), a, b) returns, and its result
\* serializes to the text mergeSources(a, b) serialized to.
C9_IdempotentFold == C9_Returned /\ ~RefoldCut

\* The kinds of the lines of the input text.
InputLines == SplitLines(texts[1])
Kinds == [i \in 1..Len(InputLines) |-> parseLine(InputLines[i]).type]

\* The first lines of the maximal runs of blank lines, and the length of a run.
RunStarts ==
    {i \in 1..Len(Kinds) : Kinds[i] = "empty" /\ (i = 1 \/ Kinds[i - 1] # "empty")}
RunEnd(i) ==
    CHOOSE j \in i..Len(Kinds) :
        /\ \A k \in i..j : Kinds[k] = "empty"
        /\ (j = Len(Kinds) \/ Kinds[j + 1] # "empty")

\* The run that starts at line i has a comment line right before it and a
\* comment line right after it.
Sandwiched(i) ==
    /\ i > 1
    /\ Kinds[i - 1] = "comment"
    /\ RunEnd(i) < Len(Kinds)
    /\ Kinds[RunEnd(i) + 1] = "comment"

\* The input lines with every run of blank lines cut to its first line.
Compressed ==
    SelectSeq([i \in 1..Len(Kinds) |-> i],
              LAMBDA i : Kinds[i] # "empty" \/ i \in RunStarts)

\* The lines of the parsed document.
ParsedLines == serializeBlocks(Chain(heap, docs[1]))

\* C10 as stated: every maximal run of blank lines of the input gives exactly
\* one block of type "empty", where the run stood.
C10_OneBlankNodePerRun ==
    pc = "parsed" =>
        /\ Len(ParsedLines) = Len(Compressed)
        /\ \A p \in 1..Len(Compressed) :
              Kinds[Compressed[p]] = "empty" <=> ParsedLines[p] = EmptyLine

\* C10 amended: every maximal run of blank lines gives exactly one block of
\* type "empty" where it stood, except a run with a comment line right before
\* it and a comment line right after it, which gives no block and one empty
\* string in the lines of the comment block before it.
C10_BlankRunsCompressed ==
    pc = "parsed" =>
        /\ Len(ParsedLines) = Len(Compressed)
        /\ \A p \in 1..Len(Compressed) :
              /\ (Kinds[Compressed[p]] = "empty" /\ ~Sandwiched(Compressed[p]))
                    <=> ParsedLines[p] = EmptyLine
              /\ (Kinds[Compressed[p]] = "empty" /\ Sandwiched(Compressed[p]))
                    <=> ParsedLines[p] = CommentLine(<<>>)

\* A run of two blank lines after a variable gave one empty block.
C10_Witness ==
    /\ pc = "parsed"
    /\ \E i \in RunStarts :
          /\ RunEnd(i) > i
          /\ ~Sandwiched(i)
          /\ i > 1 /\ Kinds[i - 1] = "variable"
    /\ Len(SelectSeq(Chain(heap, docs[1]), IsEmpty)) = 1

\* The places of the variable lines in the input text, in order.
VariablePlaces ==
    SelectSeq([i \in 1..Len(Kinds) |-> i], LAMBDA i : Kinds[i] = "variable")

\* The first line of the maximal run of comment lines (lines that are no
\* variable count as comments) that ends right before line i; i when the line
\* before is no comment.
RunBefore(i) ==
    CHOOSE j \in 1..i :
        /\ \A k \in j..(i - 1) : Kinds[k] = "comment"
        /\ (j = 1 \/ Kinds[j - 1] # "comment")

\* The places of the comment lines that stand in such a run before a variable.
OwnedPlaces ==
    {k \in 1..Len(Kinds) :
        \E i \in 1..Len(Kinds) : Kinds[i] = "variable" /\ RunBefore(i) <= k /\ k < i}

\* The other comment lines of the input, in order.
UnownedComments ==
    LET places == SelectSeq([i \in 1..Len(Kinds) |-> i],
                            LAMBDA i : Kinds[i] = "comment" /\ i \notin OwnedPlaces)
    IN  [p \in 1..Len(places) |-> InputLines[places[p]]]

\* The lines of the comment blocks of the parsed document, in order, without
\* the empty strings that stand for blank lines.
StandaloneLines ==
    LET lines == serializeBlocks(SelectSeq(Chain(heap, docs[1]), IsComment))
        kept == SelectSeq(lines, LAMBDA l : l.content # <<>>)
    IN  [p \in 1..Len(kept) |-> kept[p].content]

\* C11: the comments of each variable block of parseEnvFile's result are the
\* maximal run of comment (or invalid) lines right before its variable line,
\* and the comment blocks hold the other comment lines and none of these.
C11_CommentOwnership ==
    pc = "parsed" =>
        LET vs == VariablesOf(Chain(heap, docs[1])) IN
        /\ Len(vs) = Len(VariablePlaces)
        /\ \A p \in 1..Len(vs) :
              vs[p].comments =
                  SubSeq(InputLines, RunBefore(VariablePlaces[p]), VariablePlaces[p] - 1)
        /\ StandaloneLines = UnownedComments

\* A variable owns the comment line right before it, and a comment that a
\* blank line separates from that line stands in a block of its own.
C11_Witness ==
    /\ pc = "parsed"
    /\ Len(InputLines) = 4
    /\ Kinds = <<"comment", "empty", "comment", "variable">>
    /\ \E b \in {Chain(heap, docs[1])[i] : i \in 1..Len(Chain(heap, docs[1]))} :
          IsVariable(b) /\ Len(b.comments) = 1
    /\ Len(StandaloneLines) = 1

\* The input lines that are not blank and are no variable lines, in order.
InputComments ==
    SelectSeq(InputLines, LAMBDA l : Trim(l) # <<>> /\ ~MatchVariable(l).ok)

\* The comment lines of the parsed document, in order, without the empty
\* strings that stand for blank lines.
ParsedComments ==
    LET kept == SelectSeq(ParsedLines, LAMBDA l : l.type = "comment" /\ l.content # <<>>)
    IN  [p \in 1..Len(kept) |-> kept[p].content]

InvalidLine == <<"1", "=", "x">>

\* C12: parseEnvFile returns a chain that is not null for every text, one
\* empty block and no variable for the empty text, and every line that is not
\* blank and no variable line is a comment line of the result, as it was
\* written.
C12_ParseTotal ==
    pc = "parsed" =>
        /\ docs[1] # 0
        /\ (texts[1] = <<>> => Chain(heap, docs[1]) = <<EmptyBlock>>)
        /\ ParsedComments = InputComments

\* A line that is no variable (its key starts with a digit) stands between
\* two variable lines, and the parsed document has it as a comment line.
C12_Witness ==
    /\ pc = "parsed"
    /\ \E i \in 2..(Len(InputLines) - 1) :
          /\ InputLines[i] = InvalidLine
          /\ Kinds[i - 1] = "variable"
          /\ Kinds[i + 1] = "variable"
    /\ \E p \in 1..Len(ParsedLines) : ParsedLines[p] = CommentLine(InvalidLine)

\* The empty text has been parsed to one empty block.
C12_WitnessEmpty ==
    /\ pc = "parsed"
    /\ texts[1] = <<>>
    /\ Chain(heap, docs[1]) = <<EmptyBlock>>

\* The text holds whitespace only.
WhitespaceOnly(t) == t # Null /\ \A i \in 1..Len(t) : t[i] \in Whitespace

\* The value document i gives key K in a merge: the first definition when the
\* document is the base, the last one when it is merged in.
ValueIn(i, K) ==
    IF i = FirstValid THEN FirstValue(InputBlocks(i), K) ELSE LastValue(InputBlocks(i), K)

\* C13: mergeSources never hands a null argument to mergeTwo; with no argument
\* that is not null it returns null; with exactly one it returns that document
\* as it was parsed; with more, the arguments after a null are merged too; and
\* a whitespace-only document merged with a document d (either way round)
\* gives a document that has every key of d with the value d gives it.
C13_NullAndEmptyInputs ==
    /\ pc \in {"pass1", "pass2"} =>
          /\ frame.head # 0
          /\ frame.source # 0
          /\ \E i \in ValidArgs : docs[i] = frame.source
    /\ pc = "merged" =>
          /\ ValidArgs = {} => m = 0
          /\ \A i \in ValidArgs :
                ValidArgs = {i} =>
                    /\ m = docs[i]
                    /\ heap = ParseAll(texts, 1, <<>>, <<>>).heap
          /\ ValidArgs # {} => KeysOf(Merged) = InputKeys
          /\ \A w, d \in ValidArgs :
                (ValidArgs = {w, d} /\ w # d /\ WhitespaceOnly(texts[w])) =>
                    \A K \in KeysOf(InputBlocks(d)) :
                        /\ findVariableBlock(heap, m, K) # 0
                        /\ heap[findVariableBlock(heap, m, K)].value = ValueIn(d, K)

\* A null first argument and a whitespace-only second one, and the result has
\* B with the value of the third argument.
C13_Witness ==
    /\ pc = "merged"
    /\ texts[1] = Null
    /\ WhitespaceOnly(texts[2])
    /\ texts[3] = ThirdText
    /\ m = docs[2]
    /\ KeysOf(Merged) = {KeyB}
    /\ heap[findVariableBlock(heap, m, KeyB)].value = <<"3">>

\* Every argument was null and the result is null.
C13_WitnessAllNull == pc = "merged" /\ ValidArgs = {} /\ m = 0

\* One argument was not null and the result is that document.
C13_WitnessOne ==
    /\ pc = "merged"
    /\ ValidArgs = {2}
    /\ KeysOf(InputBlocks(2)) = {KeyA}
    /\ m = docs[2]

\* A mergeEnvFiles run has ended without an error.
Finished == mode = "cli" /\ pc = "exited" /\ cli.exitCode = 0

\* The destination as it parsed before the run (no block when there was no
\* file), and as it parses now.
DestBefore == IF cli.original = Null THEN <<>> ELSE parseEnvFile(cli.original)
Written == parseEnvFile(fs["dst"])

\* The value the merged sources give key K: the one of the last source file
\* that defines it.
MergedValue(K) ==
    LET r == CHOOSE i \in Definers(K) : \A j \in Definers(K) : j <= i IN
    LastValue(InputBlocks(r), K)

\* C14: after a run with strategy "keep", every key of the destination has in
\* the written file the value it had in the destination before the run, and
\* every key only the sources have is in the written file with the value of
\* the merged sources.
C14_KeepStrategy ==
    (Finished /\ cli.strategy = "keep") =>
        /\ \A K \in KeysOf(DestBefore) :
              /\ K \in KeysOf(Written)
              /\ FirstValue(Written, K) = FirstValue(DestBefore, K)
        /\ \A K \in InputKeys \ KeysOf(DestBefore) :
              /\ K \in KeysOf(Written)
              /\ FirstValue(Written, K) = MergedValue(K)

\* C15: after a run with strategy "overwrite", every key both the merged
\* sources and the destination define has in the written file the value of
\* the merged sources (the last source file that defines it), and every key
\* only the destination defines has the value it had there.
C15_OverwriteStrategy ==
    (Finished /\ cli.strategy = "overwrite") =>
        /\ \A K \in KeysOf(DestBefore) \cap InputKeys :
              /\ K \in KeysOf(Written)
              /\ FirstValue(Written, K) = MergedValue(K)
        /\ \A K \in KeysOf(DestBefore) \ InputKeys :
              /\ K \in KeysOf(Written)
              /\ FirstValue(Written, K) = FirstValue(DestBefore, K)

\* A source file of the command line does not exist.
SourceMissing ==
    \E i \in 1..Len(cli.sourcePaths) : ~existsSync(fs, cli.sourcePaths[i])

\* The keys the destination had with another value than the merged sources.
ConflictKeys ==
    {K \in KeysOf(DestBefore) \cap InputKeys :
        MergedValue(K) # FirstValue(DestBefore, K)}

\* The destination file as the run found it, or as a write from outside the
\* run left it since.
Untouched == IF cli.outside = Null THEN cli.original ELSE cli.outside

\* What holds in every state of a run: at most one write; after the write,
\* all sources exist, the backup was made when it was due and every conflict
\* went through the loop; with a missing source the run stops at the check,
\* with a cancelled prompt it stops in the loop, both with exit code 1 and
\* the destination file not touched by the run.
StepOrder ==
    /\ cli.writes <= 1
    /\ cli.writes = 1 =>
          /\ ~SourceMissing
          /\ (cli.backup /\ cli.original # Null) => cli.backupPath = "bak"
          /\ cli.current = 0
          /\ cli.conflictCount = Cardinality(ConflictKeys)
          /\ ~cli.cancelled
    /\ (mode = "cli" /\ SourceMissing) =>
          /\ pc \in {"check", "exited"}
          /\ pc = "exited" => cli.exitCode = 1
          /\ fs["dst"] = cli.original
          /\ cli.writes = 0
    /\ cli.cancelled =>
          /\ pc = "exited"
          /\ cli.exitCode = 1
          /\ fs["dst"] = Untouched
          /\ cli.writes = 0

\* The step of the run that writes the destination file (a write from
\* outside is no step of the run) starts where the final merge has returned,
\* nothing was written yet, no prompt waits, and the backup (when due) holds
\* the destination's content.
WriteStep ==
    ((fs'["dst"] # fs["dst"] /\ cli'.outside = cli.outside) \/ cli'.writes # cli.writes) =>
        /\ pc = "done"
        /\ cli.writes = 0
        /\ cli.current = 0
        /\ ~cli.waiting
        /\ ~SourceMissing
        /\ (cli.backup /\ cli.original # Null) => fs["bak"] = cli.original

\* C16: the destination file is written at most once, and only after every
\* source was found to exist, the backup was made when enabled and the
\* destination exists, and every conflict was resolved; a missing source or
\* a cancelled prompt ends the run with exit code 1 and the destination file
\* unchanged.
C16_StepOrdering == []StepOrder /\ [][WriteStep]_vars

\* The destination has been written in a run with two sources, a backup and
\* a conflict resolved at the prompt.
C16_Witness ==
    /\ pc = "written"
    /\ cli.writes = 1
    /\ Len(cli.sourcePaths) = 2
    /\ cli.backupPath = "bak"
    /\ fs["bak"] = cli.original
    /\ cli.strategy = "interactive"
    /\ cli.conflictCount = 1

\* The prompt was cancelled after the backup was made: exit code 1, the
\* destination file as it was.
C16_WitnessCancelled ==
    /\ pc = "exited"
    /\ cli.cancelled
    /\ cli.exitCode = 1
    /\ fs["bak"] = cli.original
    /\ fs["dst"] = cli.original

\* The prompt was cancelled after the destination file was written from
\* outside while it waited: the file is as that write left it.
C16_WitnessOutside ==
    /\ pc = "exited"
    /\ cli.cancelled
    /\ cli.outside # Null
    /\ fs["dst"] = cli.outside
    /\ fs["dst"] # cli.original

\* What a direct call of cleanupRedundantBackup(original, backup) did: it
\* returned true and removed the backup if and only if both files existed
\* with the same content; otherwise the backup is as it was.
CleanupContract ==
    pc = "returned" =>
        LET both == /\ cli.original # Null
                    /\ cli.backupBefore # Null
                    /\ cli.original = cli.backupBefore
        IN  /\ cli.removed <=> both
            /\ both => fs["bak"] = Null
            /\ ~both => fs["bak"] = cli.backupBefore
            /\ fs["dst"] = cli.original

\* C17 as stated: the contract of cleanupRedundantBackup, and after a run
\* with backup enabled that ended without error a backup file remains
\* exactly when the destination's content is not what it was before the run.
C17_BackupIffChanged ==
    /\ CleanupContract
    /\ (Finished /\ cli.backup) => (fs["bak"] # Null <=> fs["dst"] # cli.original)

\* C17 amended: the contract of cleanupRedundantBackup, and after a run with
\* backup enabled that ended without error a backup file remains exactly when
\* the destination existed before the run and its content changed.
C17_BackupIffExistedAndChanged ==
    /\ CleanupContract
    /\ (Finished /\ cli.backup) =>
          (fs["bak"] # Null <=> (cli.original # Null /\ fs["dst"] # cli.original))

\* A run with backup enabled left the destination's content as it was and
\* removed the backup it had made.
C17_Witness ==
    /\ Finished
    /\ cli.backup
    /\ cli.backupPath = "bak"
    /\ cli.removed
    /\ fs["bak"] = Null
    /\ fs["dst"] = cli.original

\* A run with backup enabled changed the destination and the backup remains.
C17_WitnessKept ==
    /\ Finished
    /\ cli.backup
    /\ fs["bak"] = cli.original
    /\ fs["dst"] # cli.original

\* A direct call with two different files returned false and left both.
C17_WitnessCall ==
    /\ pc = "returned"
    /\ cli.original # Null
    /\ cli.backupBefore # Null
    /\ cli.original # cli.backupBefore
    /\ ~cli.removed
    /\ fs["bak"] = cli.backupBefore

\* The part of a key before its first "_".
RECURSIVE Prefix(_)
Prefix(K) ==
    IF K = <<>> \/ Head(K) = "_" THEN <<>> ELSE <<Head(K)>> \o Prefix(Tail(K))

\* In the sequence of keys, K stands right after or right before a key with
\* the prefix of K.
BesidePrefix(keys, K) ==
    \E i \in 1..Len(keys) :
        /\ keys[i] = K
        /\ \/ (i > 1 /\ Prefix(keys[i - 1]) = Prefix(K))
           \/ (i < Len(keys) /\ Prefix(keys[i + 1]) = Prefix(K))

\* C18: with DB_HOST then API_URL in the destination and DB_PORT then API_KEY
\* in the source, the written file has DB_HOST, DB_PORT, API_URL, API_KEY in
\* this order; and a key only the sources have stands in the written file
\* beside a key with its prefix when the destination had one.
C18_PrefixPositioning ==
    Finished =>
        /\ (/\ KeySeq(DestBefore) = <<DB_HOST, API_URL>>
            /\ Len(texts) = 1
            /\ KeySeq(InputBlocks(1)) = <<DB_PORT, API_KEY>>)
              => KeySeq(Written) = <<DB_HOST, DB_PORT, API_URL, API_KEY>>
        /\ \A K \in InputKeys \ KeysOf(DestBefore) :
              (\E D \in KeysOf(DestBefore) : Prefix(D) = Prefix(K))
                  => BesidePrefix(KeySeq(Written), K)

\* The characters that make quoteValue quote a value.
Special == {" ", NL, CR, TAB, "#", DQ, SQ, BS}

\* What stands for one character inside the quotes.
EscapeChar(c) ==
    IF c = BS THEN <<BS, BS>>
    ELSE IF c = DQ THEN <<BS, DQ>>
    ELSE IF c = NL THEN <<BS, "n">>
    ELSE IF c = CR THEN <<BS, "r">>
    ELSE IF c = TAB THEN <<BS, "t">>
    ELSE <<c>>

RECURSIVE EscapeEach(_)
EscapeEach(v) == IF v = <<>> THEN <<>> ELSE EscapeChar(Head(v)) \o EscapeEach(Tail(v))

\* The quoting rule: v as it is when it has no special character, else v
\* between double quotes with each backslash, double quote, newline, carriage
\* return and tab escaped (the backslash first, so that the backslashes the
\* other escapes add are not doubled).
QuoteRule(v) ==
    IF \A i \in 1..Len(v) : v[i] \notin Special THEN v
    ELSE <<DQ>> \o EscapeEach(v) \o <<DQ>>

\* C19: serializeToString writes a variable as key=quoteValue(value) whatever
\* its raw field holds, and quoteValue follows the quoting rule.
C19_QuotingRule ==
    pc \in {"serialized", "reparsed"} =>
        LET b == heap[docs[1]] IN
        /\ b.type = "variable"
        /\ quoteValue(b.value) = QuoteRule(b.value)
        /\ ser1 = b.key \o <<"=">> \o QuoteRule(b.value)

\* A value with a newline and a double quote (the newline read from its
\* escape in a quoted text) was written quoted and escaped, and the line
\* written is not the raw field.
C19_Witness ==
    /\ pc = "serialized"
    /\ heap[docs[1]].value = <<NL, DQ>>
    /\ ser1 = <<"K", "=", DQ, BS, "n", BS, DQ, DQ>>
    /\ heap[docs[1]].raw # ser1

\* A value without special characters was written unquoted.
C19_WitnessPlain ==
    /\ pc = "serialized"
    /\ heap[docs[1]].value = <<"a", "n">>
    /\ ser1 = <<"K", "=", "a", "n">>
    /\ heap[docs[1]].raw # ser1

\* C20: with m = mergeSources(a, b) and s1 = serializeToString(m), merging
\* parseEnvFile(s1) into m gives a document that serializes to s1.
C20_SelfMergeStable == (mode = "self" /\ pc = "done") => ser2 = ser1

\* The sequence s with x put in at place p.
InsertAt(s, p, x) == SubSeq(s, 1, p - 1) \o <<x>> \o SubSeq(s, p, Len(s))

\* The first loop is about to process a source variable whose key base lacks.
NewVariableDue ==
    /\ pc = "pass1"
    /\ frame.current # 0
    /\ Len(heap) < HeapCap
    /\ heap[frame.current].type = "variable"
    /\ heap[frame.current].key \notin KeysOf(Chain(heap, frame.head))

\* The place in base of the first block with the key of the first source
\* variable after v that base has; 0 when no later source variable is in base.
SplicePlace ==
    LET base == Chain(heap, frame.head)
        later == Tail(Chain(heap, frame.current))
        shared == {i \in 1..Len(later) :
                      IsVariable(later[i]) /\ later[i].key \in KeysOf(base)}
    IN  IF shared = {} THEN 0
        ELSE LET i0 == CHOOSE i \in shared : \A j \in shared : i <= j IN
             CHOOSE p \in 1..Len(base) :
                 /\ IsVariable(base[p]) /\ base[p].key = later[i0].key
                 /\ \A q \in 1..(p - 1) : ~(IsVariable(base[q]) /\ base[q].key = later[i0].key)

\* C21: a source variable v whose key base lacks is copied, and the copy is
\* spliced right before the first base block with the key of the first
\* variable after v in source that base has (it is the new head when that
\* block was the head), or made the last block of base when there is none.
C21_Pass1InsertionPoint ==
    [][NewVariableDue =>
        LET v == frame.current
            copy == Len(heap) + 1
            ids == ChainIds(heap, frame.head)
        IN  /\ Len(heap') = Len(heap) + 1
            /\ heap'[copy].key = heap[v].key
            /\ heap'[copy].value = heap[v].value
            /\ heap'[copy].comments = heap[v].comments
            /\ ChainIds(heap', frame'.head) =
                  IF SplicePlace = 0 THEN Append(ids, copy)
                  ELSE InsertAt(ids, SplicePlace, copy)
            /\ \A id \in 1..Len(heap) :
                  [heap'[id] EXCEPT !.next = 0] = [heap[id] EXCEPT !.next = 0]]_vars

\* A copy was spliced before a block of base that is not the head.
C21_Witness ==
    /\ pc = "pass1"
    /\ last.op = "insert"
    /\ frame.head # last.node
    /\ heap[last.node].next = last.point
    /\ heap[last.node].key = heap[last.src].key

\* A copy was spliced before the head and is the new head.
C21_WitnessHead ==
    /\ pc = "pass1"
    /\ last.op = "insert"
    /\ frame.head = last.node
    /\ heap[last.node].next = pre.head

\* A copy was made the last block of base.
C21_WitnessTail ==
    /\ pc = "pass1"
    /\ last.op = "append"
    /\ heap[last.node].next = 0
    /\ Len(ChainIds(heap, frame.head)) > 1

\* Equality of comment blocks for the merge: the lines joined with newlines
\* and trimmed are the same text.
EqualComment(b, c) ==
    /\ IsComment(b)
    /\ IsComment(c)
    /\ Trim(Join(b.lines, <<NL>>)) = Trim(Join(c.lines, <<NL>>))

\* The key of the anchor of the source block the second loop is at: the
\* first variable after it in source; Null when there is none.
AnchorKey ==
    LET later == SelectSeq(Tail(Chain(heap, frame.current)), IsVariable) IN
    IF later = <<>> THEN Null ELSE later[1].key

\* The place in blocks of the first variable block with key K.
PlaceOfKey(blocks, K) ==
    CHOOSE p \in 1..Len(blocks) :
        /\ IsVariable(blocks[p]) /\ blocks[p].key = K
        /\ \A q \in 1..(p - 1) : ~(IsVariable(blocks[q]) /\ blocks[q].key = K)

\* A block equal to c stands before place p with only empty blocks between.
EqualBefore(blocks, p, c) ==
    \E q \in 1..(p - 1) :
        /\ EqualComment(blocks[q], c)
        /\ \A k \in (q + 1)..(p - 1) : IsEmpty(blocks[k])

\* The second loop is about to process a comment block whose anchor's key is
\* in base.
AnchoredCommentDue ==
    /\ pc = "pass2"
    /\ frame.current # 0
    /\ Len(heap) < HeapCap
    /\ heap[frame.current].type = "comment"
    /\ AnchorKey # Null
    /\ AnchorKey \in KeysOf(Chain(heap, frame.head))

\* C22: for a source comment block c whose anchor's key is in base, a copy of
\* c is spliced right before the anchor's base node if and only if the
\* nearest block before that node that is not empty is not a comment block
\* equal to c; after the step a block equal to c stands before the anchor's
\* node with only empty blocks between.
C22_AnchoredComments ==
    [][AnchoredCommentDue =>
        LET c == heap[frame.current]
            copy == Len(heap) + 1
            base == Chain(heap, frame.head)
            ids == ChainIds(heap, frame.head)
            p == PlaceOfKey(base, AnchorKey)
            after == Chain(heap', frame'.head)
        IN  /\ ChainIds(heap', frame'.head) =
                  IF EqualBefore(base, p, c) THEN ids ELSE InsertAt(ids, p, copy)
            /\ ~EqualBefore(base, p, c) => heap'[copy].lines = c.lines
            /\ EqualBefore(after, PlaceOfKey(after, AnchorKey), c)
            /\ \A id \in 1..Len(heap) :
                  [heap'[id] EXCEPT !.next = 0] = [heap[id] EXCEPT !.next = 0]]_vars

\* A copy of a comment block was spliced right before its anchor's node.
C22_Witness ==
    /\ pc = "pass2"
    /\ last.op = "comment-before"
    /\ heap[last.node].next = last.point
    /\ heap[last.node].lines = heap[last.src].lines
    /\ heap[last.point].type = "variable"

\* A comment block was skipped: an equal block stands before its anchor's
\* node, behind an empty block.
C22_WitnessPresent ==
    /\ pc = "pass2"
    /\ last.op = "comment-present"
    /\ \E e \in 1..Len(heap) :
          /\ heap[e].type = "empty"
          /\ heap[e].next = last.point
          /\ \E q \in 1..Len(heap) :
                heap[q].next = e /\ EqualComment(heap[q], heap[last.src])

\* The second loop is about to process a comment block that has no anchor,
\* or whose anchor's key base lacks.
UnanchoredCommentDue ==
    /\ pc = "pass2"
    /\ frame.current # 0
    /\ Len(heap) < HeapCap
    /\ heap[frame.current].type = "comment"
    /\ (AnchorKey = Null \/ AnchorKey \notin KeysOf(Chain(heap, frame.head)))

\* C23: for a source comment block c without an anchor in base, a copy of c
\* is made the last block of base, unless the head of base is a comment block
\* equal to c: then the chain of base stays as it was.
C23_UnanchoredComments ==
    [][UnanchoredCommentDue =>
        LET c == heap[frame.current]
            copy == Len(heap) + 1
            ids == ChainIds(heap, frame.head)
        IN  ChainIds(heap', frame'.head) =
                IF EqualComment(heap[frame.head], c) THEN ids ELSE Append(ids, copy)]_vars

\* A step of either loop called insertBefore.
SpliceStep ==
    /\ pc \in {"pass1", "pass2"}
    /\ Len(heap') > Len(heap)
    /\ last'.op \in {"insert", "comment-before"}

\* C24: in every call of insertBefore made by mergeTwo, in either loop, the
\* target block is on the chain from the current head of base, and the branch
\* that appends because the target was not found is not taken.
C24_SpliceTargetFound ==
    [][SpliceStep => /\ OnChain(heap, frame.head, last'.point)
                     /\ ~last'.notFound]_vars

\* The first loop spliced a variable and the second loop a comment block, each
\* before a target found in base.
C24_Witness ==
    /\ pc = "pass1"
    /\ last.op = "insert"
    /\ OnChain(heap, frame.head, last.point)
    /\ NodeBefore(heap, frame.head, last.point) = last.node

C24_WitnessComment ==
    /\ pc = "pass2"
    /\ last.op = "comment-before"
    /\ OnChain(heap, frame.head, last.point)
    /\ NodeBefore(heap, frame.head, last.point) = last.node

\* The blocks a loop of the running mergeTwo has still to visit.
Remaining == Len(ChainIds(heap, frame.current))

\* A loop of mergeTwo is cut at the heap cap with blocks still to visit: it
\* has allocated more copies than the arguments had blocks.
MergeCut ==
    /\ pc \in {"pass1", "pass2"}
    /\ frame.current # 0
    /\ Len(heap) >= HeapCap

\* C25: mergeSources terminates, also when an argument shares its blocks with
\* another (mergeSources(mergeSources(a, b), a, b)): every iteration of a loop
\* of mergeTwo leaves fewer blocks to visit than it found, and no loop is
\* still running after allocating more copies than the arguments had blocks.
C25_MergeTerminates ==
    /\ []~MergeCut
    /\ [][(pc \in {"pass1", "pass2"} /\ frame.current # 0) => Remaining' < Remaining]_vars

\* The references of a sequence of references, as a set.
IdSet(ids) == {ids[i] : i \in 1..Len(ids)}

\* A mergeTwo call is running or has just finished its second loop.
InMergeTwo == pc \in {"pass1", "pass2"}

\* The chain of the running call's source as it was when the call started.
SourceBefore == ChainIds(pre.heap, frame.source)

\* C26: while mergeTwo(base, source) runs on distinct documents and when it
\* ends, source's chain is the one the call started with (same blocks, same
\* order, each with the fields and the next it had), no block is on both
\* chains, and every block of base's chain that was not there at the start is
\* a block allocated during the call whose fields are those of a source block.
C26_SourceUnchanged ==
    InMergeTwo =>
        LET src == ChainIds(heap, frame.source)
            base == ChainIds(heap, frame.head)
            old == IdSet(ChainIds(pre.heap, pre.head))
        IN  /\ src = SourceBefore
            /\ \A id \in IdSet(src) : heap[id] = pre.heap[id]
            /\ IdSet(src) \cap IdSet(base) = {}
            /\ \A id \in IdSet(base) \ old :
                  /\ id > Len(pre.heap)
                  /\ \E s \in IdSet(src) :
                        [heap[id] EXCEPT !.next = 0] = [heap[s] EXCEPT !.next = 0]

\* A mergeTwo call has ended after copying a variable block and a comment
\* block of a source of two blocks or more into base.
C26_Witness ==
    /\ pc = "pass2"
    /\ frame.current = 0
    /\ Len(SourceBefore) >= 2
    /\ LET new == IdSet(ChainIds(heap, frame.head)) \ IdSet(ChainIds(pre.heap, pre.head))
       IN  /\ \E id \in new : heap[id].type = "variable"
           /\ \E id \in new : heap[id].type = "comment"

\* A sequence without the repetitions of its elements: first occurrences, in
\* order.
RECURSIVE FirstOccurrences(_)
FirstOccurrences(s) ==
    IF s = <<>> THEN <<>>
    ELSE LET r == FirstOccurrences(SubSeq(s, 1, Len(s) - 1))
             x == s[Len(s)]
         IN  IF \E i \in 1..Len(r) : r[i] = x THEN r ELSE Append(r, x)

\* The keys of the variable blocks of the arguments i.. of the call, one
\* document after the other.
RECURSIVE InputKeySeq(_)
InputKeySeq(i) ==
    IF i > Len(texts) THEN <<>>
    ELSE (IF texts[i] = Null THEN <<>> ELSE KeySeq(InputBlocks(i))) \o InputKeySeq(i + 1)

\* No key is in two of the arguments.
PairwiseDisjoint ==
    \A i, j \in ValidArgs : i # j => KeysOf(InputBlocks(i)) \cap KeysOf(InputBlocks(j)) = {}

\* C27: when no two of the documents folded by mergeSources share a key, the
\* variables of the result are those of the first document in its order, then
\* those of the second in its order, and so on: the keys in order of first
\* occurrence are the same on both sides, and when no document repeats a key
\* the result's variable blocks have exactly that sequence of keys.
C27_DisjointConcatenation ==
    (pc = "merged" /\ PairwiseDisjoint) =>
        /\ FirstOccurrences(KeySeq(Merged)) = FirstOccurrences(InputKeySeq(1))
        /\ (\A i \in ValidArgs : UniqueKeys(texts[i])) => KeySeq(Merged) = InputKeySeq(1)

\* The chain of base as it was when the running mergeTwo call started.
BaseBefore == ChainIds(pre.heap, pre.head)

\* C28: while mergeTwo(base, source) runs and when it ends, every block that
\* was on base's chain when the call started is on it still, and these blocks
\* stand in the order they had, whatever the order of the keys in source.
C28_BaseKeptInOrder ==
    InMergeTwo =>
        SelectSeq(ChainIds(heap, frame.head), LAMBDA id : id \in IdSet(BaseBefore))
            = BaseBefore

\* A mergeTwo call has ended whose base had the keys A, B in this order and
\* whose source named B before A and brought blocks of its own: base's blocks
\* are in the order A, B, with new blocks among them.
C28_Witness ==
    /\ pc = "pass2"
    /\ frame.current = 0
    /\ KeySeq(Chain(pre.heap, pre.head)) = <<KeyA, KeyB>>
    /\ KeySeq(Chain(heap, frame.source)) = <<KeyB, KeyA>>
    /\ KeySeq(Chain(heap, frame.head)) = <<KeyA, KeyB>>
    /\ Len(ChainIds(heap, frame.head)) > Len(BaseBefore)

\* No element occurs twice in the sequence.
NoRepeats(s) == \A i, j \in 1..Len(s) : i # j => s[i] # s[j]

\* A mergeTwo call has finished its second loop.
MergeTwoEnded == pc = "pass2" /\ frame.current = 0

\* C29: when no key occurs twice among the variable blocks of base, none
\* occurs twice among the variable blocks of mergeTwo(base, source), also for
\* a source that names a key several times; the value of each key of source
\* is then the one of its last occurrence in source.
C29_NoDuplicateKeys ==
    (InMergeTwo /\ NoRepeats(KeySeq(Chain(pre.heap, pre.head)))) =>
        /\ NoRepeats(KeySeq(Chain(heap, frame.head)))
        /\ MergeTwoEnded =>
              \A K \in KeysOf(Chain(heap, frame.source)) :
                  heap[findVariableBlock(heap, frame.head, K)].value
                      = LastValue(Chain(heap, frame.source), K)

\* A mergeTwo call has ended whose base lacked key A and whose source named it
\* twice with different values: the result has A once, with the later value.
C29_Witness ==
    /\ MergeTwoEnded
    /\ NoRepeats(KeySeq(Chain(pre.heap, pre.head)))
    /\ KeyA \notin KeysOf(Chain(pre.heap, pre.head))
    /\ LET src == VariablesOf(Chain(heap, frame.source))
           res == VariablesOf(Chain(heap, frame.head))
       IN  /\ Len(src) = 2
           /\ src[1].key = KeyA /\ src[2].key = KeyA
           /\ src[1].value # src[2].value
           /\ Cardinality({i \in 1..Len(res) : res[i].key = KeyA}) = 1
           /\ \E i \in 1..Len(res) : res[i].key = KeyA /\ res[i].value = src[2].value

\* The empty string that stands for a compressed run of blank lines.
Marker == <<>>

\* The block is a comment block whose last line is the marker.
EndsWithMarker(b) == IsComment(b) /\ b.lines # <<>> /\ b.lines[Len(b.lines)] = Marker

\* The comment lines right before the runs of blank lines that have a comment
\* line on either side, in order; and the number of the other runs.
LinesBeforeSandwiched ==
    LET starts == SelectSeq([i \in 1..Len(Kinds) |-> i],
                            LAMBDA i : i \in RunStarts /\ Sandwiched(i))
    IN  [p \in 1..Len(starts) |-> InputLines[starts[p] - 1]]
OtherRuns == Cardinality({i \in RunStarts : ~Sandwiched(i)})

\* C30: in the result of parseEnvFile the marker stands in the lines of a
\* comment block only as their last element, after a comment line, and in no
\* variable block's comments; a comment block that ends with it is followed
\* right away by a comment block or by a variable block with comments; and
\* each run of blank lines between two comment lines gives one marker at the
\* end of the comment block of the line before it and no empty block.
C30_MarkerPlacement ==
    pc = "parsed" =>
        LET blocks == Chain(heap, docs[1])
            marked == SelectSeq(blocks, EndsWithMarker)
        IN  /\ \A p \in 1..Len(blocks) :
                  /\ IsComment(blocks[p]) =>
                        \A k \in 1..Len(blocks[p].lines) :
                            blocks[p].lines[k] = Marker => (k = Len(blocks[p].lines) /\ k > 1)
                  /\ IsVariable(blocks[p]) =>
                        \A k \in 1..Len(blocks[p].comments) : blocks[p].comments[k] # Marker
                  /\ EndsWithMarker(blocks[p]) =>
                        /\ p < Len(blocks)
                        /\ \/ IsComment(blocks[p + 1])
                           \/ IsVariable(blocks[p + 1]) /\ blocks[p + 1].comments # <<>>
            /\ [p \in 1..Len(marked) |-> marked[p].lines[Len(marked[p].lines) - 1]]
                   = LinesBeforeSandwiched
            /\ Len(SelectSeq(blocks, IsEmpty)) = OtherRuns

\* "#c", two blank lines, " #d" parsed to two comment blocks, the first with
\* the lines "#c" and the marker, and to no empty block.
C30_Witness ==
    /\ pc = "parsed"
    /\ InputLines = <<Comment1, <<>>, <<>>, <<" ", "#", "d">>>>
    /\ LET blocks == Chain(heap, docs[1]) IN
       /\ Len(blocks) = 2
       /\ IsComment(blocks[1]) /\ blocks[1].lines = <<Comment1, Marker>>
       /\ IsComment(blocks[2]) /\ blocks[2].lines = <<<<" ", "#", "d">>>>

\* A comment block that ends with the marker stands right before a variable
\* block that has a comment.
C30_WitnessVariable ==
    /\ pc = "parsed"
    /\ LET blocks == Chain(heap, docs[1]) IN
       \E p \in 1..(Len(blocks) - 1) :
          /\ EndsWithMarker(blocks[p])
          /\ IsVariable(blocks[p + 1])
          /\ Len(blocks[p + 1].comments) = 1

=============================================================================
